---- MODULE Spec2Model ----
(***************************************************************************)
(* A state-machine model of the AppSegura backend: the Fernet key          *)
(* lifecycle of crypto.read_secret_key, the start-up of app.py, the data   *)
(* table of database.py with the /api/data routes, and the in-memory       *)
(* login-attempt rate limiter of app.py.                                   *)
(*                                                                         *)
(* Byte strings are sequences of integers.  A Fernet key file holds one    *)
(* element: <<k>> with k >= 1 is the base64 text of key number k, <<0>> is *)
(* a partially written or otherwise unusable content, <<-1>> is the raw    *)
(* 32-byte session secret of Config.get_secret_key, and <<>> is a          *)
(* zero-length file.  A Fernet handle is the sequence <<k>> of its key;    *)
(* <<>> stands for "no handle".                                            *)
(***************************************************************************)
EXTENDS Integers, Sequences, FiniteSets, TLC

\* ---------------------------------------------------------------- bounds
\* Number of distinct Fernet keys that can be in existence at one time.
MaxKeys == 4
\* Length of the longest text a client submits to POST /api/data.
MaxTextLen == 2
\* Number of attempts recorded, over all clients, since their last clears.
MaxRecorded == 6
\* Number of answers to POST /login kept in the history.
MaxAnswered == 7

\* Number of rows of table data.
MaxRows == 3

\* Number of attempts that concurrent login requests record.
MaxRaced == 3
\* The latest time the clock reaches, in seconds.
MaxTime == 1350

\* ------------------------------------------------------ program constants
\* crypto.py: max_attempts = 3
max_attempts == 3
\* config.py: MAX_LOGIN_ATTEMPTS default
MAX_LOGIN_ATTEMPTS == 5
\* config.py: LOGIN_ATTEMPT_WINDOW default (seconds)
LOGIN_ATTEMPT_WINDOW == 900

\* app.py key_path (src/.secret.key) and alt_key_path (backend/.secret.key);
\* the latter is also Config.SECRET_KEY_FILE.
key_path == "src/.secret.key"
alt_key_path == "backend/.secret.key"
SECRET_KEY_FILE == "backend/.secret.key"
Paths == {key_path, alt_key_path}

\* The processes that call read_secret_key.
Callers == {"app"}

Users == {"alice", "bob"}
Hashes == {"h1"}
IPs == {"10.0.0.1", "10.0.0.2"}

VARIABLES
  os_name,        \* os.name of the host: "posix" or "nt"
  faults,         \* the failures the environment can produce in this behaviour
  files,          \* the file system: path -> [exists, content, mode]
  rk,             \* per caller, its read_secret_key call (pc "idle": none)
  last_ret,       \* history: per path, the key the last call on it returned
  app,            \* the app.py process: [pc, fernet_key, error]
  users,          \* table users: set of [username, password]
  data,           \* table data: sequence of [username, data] in rowid order
  resp,           \* the last response of a /api/data route
  last_saved,     \* history: per user, the blob the last completed save stored
                  \* (<<>>: none yet) and whether a save found an earlier row
  login_attempts, \* app.py login_attempts: ip -> [known, attempts]; known is
                  \* "ip in login_attempts", attempts the list of timestamps
  now,            \* time.time(), in seconds
  recorded,       \* history: per ip, every attempt recorded since its last clear
  limiter,        \* history: the last limiter operation and its result
  session,        \* the client's Flask session: <<>>, or <<u>> for session['username'] = u
  http,           \* history: the last request of the client and its response
  posted,         \* history: per user, the text last handed over for storing:
                  \* the form text of the last POST /api/data answered 200, or
                  \* the text last given to encrypt_data (<<>>: none yet)
  threads,        \* per worker thread, the call it is in the middle of
                  \* (pc "idle": none) with the call's local variables
  answered        \* history: the time, client and status of the answers 200
                  \* and 401 to POST /login, where the specification keeps it

vars == <<os_name, faults, files, rk, last_ret, app, users, data, resp, last_saved,
          login_attempts, now, recorded, limiter, session, http, posted,
          threads, answered>>

keyVars == <<os_name, faults, files, rk, last_ret, app>>
dbVars == <<users, data, resp, last_saved>>
rateVars == <<login_attempts, now, recorded, limiter>>
webVars == <<session, http, posted>>
concVars == <<threads, answered>>

\* ------------------------------------------------------------ environment
\* The operations that can fail under the process: each name is an I/O call of
\* read_secret_key raising OSError, "start" is get_secret_key or init_database
\* raising while app.py is imported, "kill" is the process being killed before
\* it serves, and "db" is sqlite3 raising in a route.
AllFaults == {"mkdir", "read", "unlink", "open", "write", "chmod", "verify",
              "start", "kill", "db"}

\* The worker threads of the server, and a thread that is in no call.
Threads == {"t1", "t2"}

IdleThread == [pc |-> "idle"]

NoThreads == [t \in Threads |-> IdleThread]

NeverSaved == [blob |-> <<>>, text |-> <<>>, overwrote |-> FALSE]

\* ------------------------------------------------------------ file system
NoFile == [exists |-> FALSE, content |-> <<>>, mode |-> "none"]

\* A file created by open(..., 'wb') gets the umask's default mode; one that
\* exists keeps its mode and is truncated.
OpenWb(f) == [exists |-> TRUE, content |-> <<>>,
              mode |-> IF f.exists THEN f.mode ELSE "0644"]

\* stat.S_IRUSR | stat.S_IWUSR
OwnerOnly == "0600"

GroupOrWorldReadable(f) == f.exists /\ f.mode # OwnerOnly

\* ------------------------------------------------------------------ Fernet
\* Fernet(key) raises ValueError unless key is 32 url-safe base64-encoded bytes.
FernetAccepts(content) == Len(content) = 1 /\ content[1] >= 1

\* ------------------------------------------------------------------ UTF-8
\* The characters of the texts: a letter, a space, a form feed (a control
\* character), and two characters outside ASCII.
CodePoint(ch) ==
  CASE ch = "a" -> 97 [] ch = " " -> 32 [] ch = "\f" -> 12
    [] ch = "U+00E9" -> 233 [] ch = "U+20AC" -> 8364

AllChars == {"a", " ", "\f", "U+00E9", "U+20AC"}

\* The character of a code point ("?": one that is none of AllChars).
CharOf(cp) ==
  IF \E ch \in AllChars : CodePoint(ch) = cp
  THEN CHOOSE ch \in AllChars : CodePoint(ch) = cp
  ELSE "?"

\* str.encode('utf-8') of one character.
EncodeCharOneByte(cp) == <<cp % 256>>

EncodeChar(cp) ==
  IF cp < 128 THEN <<cp>>
  ELSE IF cp < 2048 THEN <<192 + (cp \div 64), 128 + (cp % 64)>>
  ELSE <<224 + (cp \div 4096), 128 + ((cp \div 64) % 64), 128 + (cp % 64)>>

RECURSIVE encode_utf8(_)
encode_utf8(str) ==
  IF str = <<>> THEN <<>>
  ELSE EncodeChar(CodePoint(Head(str))) \o encode_utf8(Tail(str))

\* The number of bytes the sequence starting with this byte takes.
SeqLen(b) == IF b < 128 THEN 1 ELSE IF b < 224 THEN 2 ELSE 3

DecodeSeq(bs) ==
  IF SeqLen(bs[1]) = 1 THEN bs[1]
  ELSE IF SeqLen(bs[1]) = 2 THEN (bs[1] - 192) * 64 + (bs[2] - 128)
  ELSE (bs[1] - 224) * 4096 + (bs[2] - 128) * 64 + (bs[3] - 128)

Continuation(b) == b >= 128 /\ b < 192

\* bytes.decode('utf-8') raises UnicodeDecodeError unless every sequence has a
\* start byte and the continuation bytes it calls for.
RECURSIVE utf8_valid(_)
utf8_valid(bs) ==
  \/ bs = <<>>
  \/ /\ ~Continuation(bs[1])
     /\ SeqLen(bs[1]) <= Len(bs)
     /\ \A i \in 2..SeqLen(bs[1]) : Continuation(bs[i])
     /\ utf8_valid(SubSeq(bs, SeqLen(bs[1]) + 1, Len(bs)))

\* bytes.decode('utf-8')
RECURSIVE decode_utf8(_)
decode_utf8(bs) ==
  IF bs = <<>> THEN <<>>
  ELSE <<CharOf(DecodeSeq(SubSeq(bs, 1, SeqLen(bs[1]))))>>
         \o decode_utf8(SubSeq(bs, SeqLen(bs[1]) + 1, Len(bs)))

\* crypto.encrypt_data: the token carries the key it was made under and the
\* bytes of the text.
encrypt_data(plain_data, key) == [key |-> key, text |-> encode_utf8(plain_data)]

\* crypto.decrypt_data: the plaintext, or a raised Exception (InvalidToken
\* wrapped) when the token was made under another key.
DecryptOk(encrypted_data, key) == key # <<>> /\ encrypted_data.key = key

decrypt_data(encrypted_data, key) ==
  IF DecryptOk(encrypted_data, key) /\ utf8_valid(encrypted_data.text)
  THEN [raised |-> FALSE, text |-> decode_utf8(encrypted_data.text)]
  ELSE [raised |-> TRUE, text |-> <<>>]

\* Fernet.generate_key(): 32 random bytes, a key found nowhere in the system.
\* Keys are numbered; the number drawn is the least one that no file, handle,
\* stored token or returned handle holds (the key a call generated in an
\* earlier attempt is gone unless it reached the file; the key a call is
\* writing is held by that call).
KeysInUse ==
  UNION ( {{files[p].content[i] : i \in DOMAIN files[p].content} : p \in Paths}
    \cup {{last_ret[p][i] : i \in DOMAIN last_ret[p]} : p \in Paths}
    \cup {{rk[c].result[i] : i \in DOMAIN rk[c].result} : c \in DOMAIN rk}
    \cup {{rk[c].new_key[i] : i \in DOMAIN rk[c].new_key} :
             c \in {d \in DOMAIN rk : rk[d].pc \in {"write", "chmod", "verify"}}}
    \cup {{app.fernet_key[i] : i \in DOMAIN app.fernet_key}}
    \cup {{data[i].data.key[1] : i \in DOMAIN data}}
    \cup {{last_saved[u].blob[i].key[1] : i \in DOMAIN last_saved[u].blob} : u \in Users} )

CanGenerate == \E k \in 1..MaxKeys : k \notin KeysInUse

generate_key ==
  <<CHOOSE k \in 1..MaxKeys : k \notin KeysInUse /\ \A j \in 1..(k - 1) : j \in KeysInUse>>

\* --------------------------------------------------------- read_secret_key
\* The call's local state.  seen, wrote and from_file are history fields: what
\* the first look at the file found, whether this call wrote or removed the
\* file, and whether the returned key was read from an existing file.  orphan
\* says that the file the call holds open for writing was unlinked by another
\* process: what the call writes is then reachable under no path.
IdleCall == [pc |-> "idle", path |-> key_path, attempt |-> 0, new_key |-> <<>>,
             result |-> <<>>, seen |-> "none", wrote |-> FALSE, from_file |-> FALSE,
             orphan |-> FALSE]

\* read_secret_key(filename): entry, attempt 0 of range(max_attempts).
StartCall(filename) ==
  [IdleCall EXCEPT !.pc = "mkdir", !.path = filename]

\* except ...: if attempt < max_attempts - 1: continue  else: raise
RetryOrRaiseOneMore(r) ==
  IF r.attempt < max_attempts
  THEN [r EXCEPT !.pc = "mkdir", !.attempt = @ + 1]
  ELSE [r EXCEPT !.pc = "raised"]

RetryOrRaise(r) ==
  IF r.attempt < max_attempts - 1
  THEN [r EXCEPT !.pc = "mkdir", !.attempt = @ + 1]
  ELSE [r EXCEPT !.pc = "raised"]

Saw(r, what) == IF r.seen = "none" THEN what ELSE r.seen

\* secret_file.parent.mkdir(parents=True, exist_ok=True)
RkMkdir(c) ==
  /\ rk[c].pc = "mkdir"
  /\ \/ rk' = [rk EXCEPT ![c].pc = "exists"]
     \/ /\ "mkdir" \in faults
        /\ rk' = [rk EXCEPT ![c] = RetryOrRaise(@)]
  /\ UNCHANGED <<os_name, faults, concVars, files, last_ret, app, dbVars, rateVars, webVars>>

\* key_needs_creation = True; if secret_file.exists():
RkExists(c) ==
  /\ rk[c].pc = "exists"
  /\ rk' = [rk EXCEPT ![c].pc = IF files[rk[c].path].exists THEN "read" ELSE "unlink",
                      ![c].seen = IF files[rk[c].path].exists THEN @ ELSE Saw(rk[c], "absent")]
  /\ UNCHANGED <<os_name, faults, concVars, files, last_ret, app, dbVars, rateVars, webVars>>

\* What reading an existing file leads to: len(existing_key) > 0, Fernet(...)
\* and the encrypt/decrypt self-test.
KeyFileUsableUntested(content) == Len(content) > 0

KeyFileUsable(content) == Len(content) > 0 /\ FernetAccepts(content)

ReadFinding(content) ==
  IF Len(content) = 0 THEN "empty"
  ELSE IF FernetAccepts(content) THEN "valid" ELSE "invalid"

\* with secret_file.open('rb') as f: existing_key = f.read() ... return test_fernet
\* Any exception (open or read failing, ValueError of Fernet) is caught and
\* leads to re-creation.
RkRead(c) ==
  /\ rk[c].pc = "read"
  /\ \/ /\ files[rk[c].path].exists
        /\ KeyFileUsable(files[rk[c].path].content)
        /\ rk' = [rk EXCEPT ![c].pc = "returned",
                            ![c].result = files[rk[c].path].content,
                            ![c].from_file = TRUE,
                            ![c].seen = Saw(rk[c], "valid")]
     \/ /\ files[rk[c].path].exists
        /\ ~KeyFileUsable(files[rk[c].path].content)
        /\ rk' = [rk EXCEPT ![c].pc = "unlink",
                            ![c].seen = Saw(rk[c], ReadFinding(files[rk[c].path].content))]
     \/ /\ "read" \in faults
        /\ rk' = [rk EXCEPT ![c].pc = "unlink", ![c].seen = Saw(rk[c], "unreadable")]
  /\ UNCHANGED <<os_name, faults, concVars, files, last_ret, app, dbVars, rateVars, webVars>>

\* if secret_file.exists(): try: secret_file.unlink() except: print(WARNING)
RkUnlink(c) ==
  /\ rk[c].pc = "unlink"
  /\ \/ /\ files[rk[c].path].exists
        /\ files' = [files EXCEPT ![rk[c].path] = NoFile]
        /\ rk' = [d \in DOMAIN rk |->
                   IF d = c THEN [rk[c] EXCEPT !.pc = "open", !.wrote = TRUE]
                   ELSE IF rk[d].pc = "write" /\ rk[d].path = rk[c].path
                   THEN [rk[d] EXCEPT !.orphan = TRUE]
                   ELSE rk[d]]
     \/ /\ files[rk[c].path].exists
        /\ "unlink" \in faults
        /\ UNCHANGED files
        /\ rk' = [rk EXCEPT ![c].pc = "open"]
     \/ /\ ~files[rk[c].path].exists
        /\ UNCHANGED files
        /\ rk' = [rk EXCEPT ![c].pc = "open"]
  /\ UNCHANGED <<os_name, faults, concVars, last_ret, app, dbVars, rateVars, webVars>>

\* new_key = Fernet.generate_key(); with secret_file.open('wb') as f:
RkOpen(c) ==
  /\ rk[c].pc = "open"
  /\ CanGenerate
  /\ \/ /\ files' = [files EXCEPT ![rk[c].path] = OpenWb(@)]
        /\ rk' = [rk EXCEPT ![c].pc = "write", ![c].new_key = generate_key,
                            ![c].wrote = TRUE, ![c].orphan = FALSE]
     \/ /\ "open" \in faults
        /\ UNCHANGED files
        /\ rk' = [rk EXCEPT ![c] = RetryOrRaise([@ EXCEPT !.new_key = generate_key])]
  /\ UNCHANGED <<os_name, faults, concVars, last_ret, app, dbVars, rateVars, webVars>>

\* f.write(new_key); f.flush(); os.fsync(f.fileno())
\* A failing write leaves the file empty or partly written.
RkWrite(c) ==
  /\ rk[c].pc = "write"
  /\ \/ /\ files' = IF rk[c].orphan THEN files
                     ELSE [files EXCEPT ![rk[c].path].content = rk[c].new_key]
        /\ rk' = [rk EXCEPT ![c].pc = IF os_name # "nt" THEN "chmod" ELSE "verify"]
     \/ /\ "write" \in faults
        /\ \E partial \in {<<>>, <<0>>} :
             files' = IF rk[c].orphan THEN files
                      ELSE [files EXCEPT ![rk[c].path].content = partial]
        /\ rk' = [rk EXCEPT ![c] = RetryOrRaise(@)]
  /\ UNCHANGED <<os_name, faults, concVars, last_ret, app, dbVars, rateVars, webVars>>

\* if os.name != 'nt': os.chmod(secret_file, stat.S_IRUSR | stat.S_IWUSR)
RkChmod(c) ==
  /\ rk[c].pc = "chmod"
  /\ \/ /\ files[rk[c].path].exists
        /\ files' = [files EXCEPT ![rk[c].path].mode = OwnerOnly]
        /\ rk' = [rk EXCEPT ![c].pc = "verify"]
     \/ /\ "chmod" \in faults \/ ~files[rk[c].path].exists
        /\ UNCHANGED files
        /\ rk' = [rk EXCEPT ![c] = RetryOrRaise(@)]
  /\ UNCHANGED <<os_name, faults, concVars, last_ret, app, dbVars, rateVars, webVars>>

\* verify_key = f.read(); if verify_key != new_key: raise Exception(...)
\* return Fernet(new_key)
RkVerify(c) ==
  /\ rk[c].pc = "verify"
  /\ \/ /\ files[rk[c].path].exists
        /\ IF files[rk[c].path].content = rk[c].new_key
           THEN rk' = [rk EXCEPT ![c].pc = "returned", ![c].result = rk[c].new_key]
           ELSE rk' = [rk EXCEPT ![c] = RetryOrRaise(@)]
     \/ /\ "verify" \in faults \/ ~files[rk[c].path].exists
        /\ rk' = [rk EXCEPT ![c] = RetryOrRaise(@)]
  /\ UNCHANGED <<os_name, faults, concVars, files, last_ret, app, dbVars, rateVars, webVars>>

RkStep(c) ==
  \/ RkMkdir(c) \/ RkExists(c) \/ RkRead(c) \/ RkUnlink(c)
  \/ RkOpen(c) \/ RkWrite(c) \/ RkChmod(c) \/ RkVerify(c)

\* ------------------------------------------------------------ rate limiter
\* login_attempts = {}
NoAttempts == [ip \in IPs |-> [known |-> FALSE, attempts |-> <<>>]]

\* if ip_address not in login_attempts: login_attempts[ip_address] = []
Known(la, ip_address) ==
  IF la[ip_address].known THEN la
  ELSE [la EXCEPT ![ip_address] = [known |-> TRUE, attempts |-> <<>>]]

InWindow(attempt_time, current_time) ==
  current_time - attempt_time < LOGIN_ATTEMPT_WINDOW

\* is_rate_limited without the cleaning of old attempts.
PrunedNothing(la, ip_address, current_time) == Known(la, ip_address)

\* is_rate_limited, the map it leaves: the attempts inside the window.
Pruned(la, ip_address, current_time) ==
  [Known(la, ip_address) EXCEPT ![ip_address].attempts =
     SelectSeq(@, LAMBDA attempt_time : InWindow(attempt_time, current_time))]

\* is_rate_limited, the value it returns.
is_rate_limited_above(la, ip_address, current_time) ==
  Len(Pruned(la, ip_address, current_time)[ip_address].attempts) > MAX_LOGIN_ATTEMPTS

is_rate_limited(la, ip_address, current_time) ==
  Len(Pruned(la, ip_address, current_time)[ip_address].attempts) >= MAX_LOGIN_ATTEMPTS

\* record_login_attempt
record_login_attempt(la, ip_address, current_time) ==
  [Known(la, ip_address) EXCEPT ![ip_address].attempts = Append(@, current_time)]

\* clear_login_attempts: del login_attempts[ip_address]
clear_login_attempts(la, ip_address) ==
  [la EXCEPT ![ip_address] = [known |-> FALSE, attempts |-> <<>>]]

TotalRecorded == Len(recorded["10.0.0.1"]) + Len(recorded["10.0.0.2"])

IsRateLimited(ip) ==
  /\ app.pc = "serving"
  /\ login_attempts' = Pruned(login_attempts, ip, now)
  /\ limiter' = [op |-> "is_rate_limited", ip |-> ip,
                 result |-> is_rate_limited(login_attempts, ip, now)]
  /\ UNCHANGED <<now, recorded, keyVars, concVars, dbVars, webVars>>

RecordLoginAttempt(ip) ==
  /\ app.pc = "serving"
  /\ TotalRecorded < MaxRecorded
  /\ login_attempts' = record_login_attempt(login_attempts, ip, now)
  /\ recorded' = [recorded EXCEPT ![ip] = Append(@, now)]
  /\ limiter' = [op |-> "record_login_attempt", ip |-> ip, result |-> FALSE]
  /\ UNCHANGED <<now, keyVars, concVars, dbVars, webVars>>

ClearLoginAttempts(ip) ==
  /\ app.pc = "serving"
  /\ login_attempts' = clear_login_attempts(login_attempts, ip)
  /\ recorded' = [recorded EXCEPT ![ip] = <<>>]
  /\ limiter' = [op |-> "clear_login_attempts", ip |-> ip, result |-> FALSE]
  /\ UNCHANGED <<now, keyVars, concVars, dbVars, webVars>>

\* -------------------------------- login requests of two threads, step by step
\* A failing login request run by a worker thread, login_attempts being shared
\* without a lock.  pc "read": is_rate_limited took current_time and made sure
\* of the client's list; "assign": the list comprehension has gone through the
\* client's list, pruned being the list it built; "return": the pruned list
\* was assigned; "record": is_rate_limited returned False and the credential
\* check failed.
LimEnter(t, ip) ==
  /\ app.pc = "serving"
  /\ threads[t].pc = "idle"
  /\ login_attempts' = Known(login_attempts, ip)
  /\ threads' = [threads EXCEPT ![t] =
                   [pc |-> "read", ip |-> ip, current_time |-> now, pruned |-> <<>>]]
  /\ UNCHANGED <<now, recorded, limiter, answered, keyVars, dbVars, webVars>>

\* [attempt_time for attempt_time in login_attempts[ip_address] if ...]
LimRead(t) ==
  /\ threads[t].pc = "read"
  /\ threads' = [threads EXCEPT
                   ![t].pc = "assign",
                   ![t].pruned = Pruned(login_attempts, threads[t].ip,
                                        threads[t].current_time)[threads[t].ip].attempts]
  /\ UNCHANGED <<rateVars, answered, keyVars, dbVars, webVars>>

\* login_attempts[ip_address] = ...
LimAssign(t) ==
  /\ threads[t].pc = "assign"
  /\ login_attempts' = [login_attempts EXCEPT ![threads[t].ip] =
                          [known |-> TRUE, attempts |-> threads[t].pruned]]
  /\ threads' = [threads EXCEPT ![t].pc = "return"]
  /\ UNCHANGED <<now, recorded, limiter, answered, keyVars, dbVars, webVars>>

\* return len(login_attempts[ip_address]) >= config.MAX_LOGIN_ATTEMPTS, and
\* login() answering 429 when it is True.
LimReturn(t) ==
  /\ threads[t].pc = "return"
  /\ threads' = [threads EXCEPT ![t] =
                   IF Len(login_attempts[threads[t].ip].attempts) >= MAX_LOGIN_ATTEMPTS
                   THEN IdleThread ELSE [@ EXCEPT !.pc = "record"]]
  /\ limiter' = [op |-> "is_rate_limited", ip |-> threads[t].ip,
                 result |-> Len(login_attempts[threads[t].ip].attempts)
                              >= MAX_LOGIN_ATTEMPTS]
  /\ UNCHANGED <<login_attempts, now, recorded, answered, keyVars, dbVars, webVars>>

\* record_login_attempt(client_ip) of the failed credential check, and 401.
LimRecord(t) ==
  /\ threads[t].pc = "record"
  /\ Len(recorded[threads[t].ip]) < MaxRaced
  /\ login_attempts' = record_login_attempt(login_attempts, threads[t].ip, now)
  /\ recorded' = [recorded EXCEPT ![threads[t].ip] = Append(@, now)]
  /\ limiter' = [op |-> "record_login_attempt", ip |-> threads[t].ip,
                 result |-> FALSE]
  /\ threads' = [threads EXCEPT ![t] = IdleThread]
  /\ UNCHANGED <<now, answered, keyVars, dbVars, webVars>>

\* time.time() moves on, half a window at a time.
TickSeconds == LOGIN_ATTEMPT_WINDOW \div 2

Tick ==
  /\ now + TickSeconds <= MaxTime
  /\ now' = now + TickSeconds
  /\ limiter' = [op |-> "tick", ip |-> "none", result |-> FALSE]
  /\ UNCHANGED <<login_attempts, recorded, keyVars, concVars, dbVars, webVars>>

\* ------------------------------------------------------------ app.py start
\* A request of the client and the response to it.  form holds the form
\* fields the route reads; field and error are those of the JSON body; did is
\* what the handler did on the way: "lookup" (get_user_password), "verify"
\* (check_phash), "record", "clear", "read", "decrypt", "write", "create".
Http(route, method, csrf, form, status, field, error, did) ==
  [route |-> route, method |-> method, csrf |-> csrf, form |-> form,
   status |-> status, field |-> field, error |-> error, did |-> did]

NoForm == [none |-> TRUE]

NoRequest == Http("none", "none", "none", NoForm, 0, "none", "none", {})

Down == [pc |-> "down", fernet_key |-> <<>>, error |-> "none"]

NoResp == [route |-> "none", username |-> "none", status |-> 0, data |-> <<>>]

\* Config.get_secret_key: read SECRET_KEY_FILE, or on FileNotFoundError write
\* secrets.token_bytes(32) to it and chmod it 0o600 (not on Windows).
get_secret_key(fs) ==
  IF fs[SECRET_KEY_FILE].exists THEN fs
  ELSE [fs EXCEPT ![SECRET_KEY_FILE] =
          [exists |-> TRUE, content |-> <<-1>>,
           mode |-> IF os_name # "nt" THEN OwnerOnly ELSE "0644"]]

\* python app.py, lines 48-74: app.config.update(config.get_flask_config()),
\* login_attempts = {}, init_database(), then read_secret_key(key_path).
\* An I/O error in get_secret_key or a DatabaseError ends the process.
AppStart ==
  /\ app.pc \in {"down", "failed"}
  /\ \/ /\ files' = get_secret_key(files)
        /\ last_ret' = IF files' = files THEN last_ret
                       ELSE [last_ret EXCEPT ![SECRET_KEY_FILE] = <<>>]
        /\ app' = [pc |-> "key_primary", fernet_key |-> <<>>, error |-> "none"]
        /\ rk' = [rk EXCEPT !["app"] = StartCall(key_path)]
     \/ /\ "start" \in faults
        /\ files' = get_secret_key(files)
        /\ last_ret' = IF files' = files THEN last_ret
                       ELSE [last_ret EXCEPT ![SECRET_KEY_FILE] = <<>>]
        /\ app' = [pc |-> "failed", fernet_key |-> <<>>, error |-> "startup"]
        /\ UNCHANGED rk
     \/ /\ "start" \in faults
        /\ UNCHANGED <<files, last_ret, rk>>
        /\ app' = [pc |-> "failed", fernet_key |-> <<>>, error |-> "startup"]
  /\ login_attempts' = NoAttempts
  /\ resp' = NoResp
  /\ UNCHANGED <<os_name, faults, concVars, users, data, last_saved, now, recorded, limiter, webVars>>

\* try: fernet_key = read_secret_key(key_path)
\* except Exception: ... fernet_key = read_secret_key(alt_key_path)
AppKeyPrimary ==
  /\ app.pc = "key_primary"
  /\ \/ /\ rk["app"].pc = "returned"
        /\ app' = [app EXCEPT !.pc = "serving", !.fernet_key = rk["app"].result]
        /\ rk' = [rk EXCEPT !["app"] = IdleCall]
        /\ last_ret' = [last_ret EXCEPT ![rk["app"].path] = rk["app"].result]
     \/ /\ rk["app"].pc = "raised"
        /\ app' = [app EXCEPT !.pc = "key_alt"]
        /\ rk' = [rk EXCEPT !["app"] = StartCall(alt_key_path)]
        /\ last_ret' = [last_ret EXCEPT ![rk["app"].path] = <<>>]
  /\ UNCHANGED <<os_name, faults, concVars, files, dbVars, rateVars, webVars>>

\* except Exception as e2: raise Exception("Cannot initialize application
\* without encryption key")
AppKeyAltFailsServing(a) == [a EXCEPT !.pc = "serving"]

AppKeyAltFails(a) == [a EXCEPT !.pc = "failed", !.error = "no encryption key"]

AppKeyAlt ==
  /\ app.pc = "key_alt"
  /\ \/ /\ rk["app"].pc = "returned"
        /\ app' = [app EXCEPT !.pc = "serving", !.fernet_key = rk["app"].result]
        /\ last_ret' = [last_ret EXCEPT ![rk["app"].path] = rk["app"].result]
     \/ /\ rk["app"].pc = "raised"
        /\ app' = AppKeyAltFails(app)
        /\ last_ret' = [last_ret EXCEPT ![rk["app"].path] = <<>>]
  /\ rk' = [rk EXCEPT !["app"] = IdleCall]
  /\ UNCHANGED <<os_name, faults, concVars, files, dbVars, rateVars, webVars>>

\* The process ends (stopped or killed), at any point of its life.  A call it
\* was in the middle of is abandoned, whatever it had done to the file.
AppExit ==
  /\ \/ app.pc = "serving"
     \/ app.pc \in {"key_primary", "key_alt"} /\ "kill" \in faults
  /\ app' = Down
  /\ rk' = [rk EXCEPT !["app"] = IdleCall]
  /\ last_ret' = IF rk["app"].pc = "idle" THEN last_ret
                 ELSE [last_ret EXCEPT ![rk["app"].path] = rk["app"].result]
  /\ login_attempts' = NoAttempts
  /\ resp' = NoResp
  /\ UNCHANGED <<os_name, faults, concVars, files, users, data, last_saved, now, recorded, limiter, webVars>>

\* --------------------------------------------------------------- database
Usernames == {r.username : r \in users}

\* create_user: INSERT INTO users; username is UNIQUE.
create_user_raises_never(username) == FALSE

create_user_raises(username) == username \in Usernames

create_user(username, password_hash) ==
  users \cup {[username |-> username, password |-> password_hash]}

RowsOf(table, username) == {i \in DOMAIN table : table[i].username = username}

FirstRow(table, username) ==
  CHOOSE i \in RowsOf(table, username) : \A j \in RowsOf(table, username) : i <= j

\* get_user_data: SELECT data FROM data WHERE username = ?; fetchone().
\* <<>> is None.
get_user_data_any_row(table, username) ==
  IF table = <<>> THEN <<>> ELSE <<table[1].data>>

get_user_data(table, username) ==
  IF RowsOf(table, username) = {} THEN <<>>
  ELSE <<table[FirstRow(table, username)].data>>

\* save_user_data: SELECT id ...; UPDATE ... WHERE username = ? if a row was
\* found, INSERT otherwise.
save_user_data_insert_always(table, username, encrypted_data) ==
  Append(table, [username |-> username, data |-> encrypted_data])

save_user_data(table, username, encrypted_data) ==
  IF RowsOf(table, username) # {}
  THEN [i \in DOMAIN table |->
          IF table[i].username = username
          THEN [table[i] EXCEPT !.data = encrypted_data] ELSE table[i]]
  ELSE Append(table, [username |-> username, data |-> encrypted_data])

\* FOREIGN KEY (username) REFERENCES users (username), PRAGMA foreign_keys = ON
save_user_data_raises(table, username) ==
  RowsOf(table, username) = {} /\ username \notin Usernames

\* ------------------------------------------------------------- validation
Chars == {"a", " ", "\f"}

Texts == UNION {[1..n -> Chars] : n \in 0..MaxTextLen}

\* [\x00-\x08\x0B\x0C\x0E-\x1F\x7F]
IsControl(ch) == ch \in {"\f"}

IsSpace(ch) == ch \in {" ", "\t", "\n", "\r"}

RECURSIVE RemoveControl(_)
RemoveControl(s) ==
  IF s = <<>> THEN <<>>
  ELSE IF IsControl(Head(s)) THEN RemoveControl(Tail(s))
       ELSE <<Head(s)>> \o RemoveControl(Tail(s))

RECURSIVE LStrip(_)
LStrip(s) == IF s # <<>> /\ IsSpace(Head(s)) THEN LStrip(Tail(s)) ELSE s

RECURSIVE RStrip(_)
RStrip(s) ==
  IF s # <<>> /\ IsSpace(s[Len(s)]) THEN RStrip(SubSeq(s, 1, Len(s) - 1)) ELSE s

Strip(s) == RStrip(LStrip(s))

sanitize_input_no_strip(input_str) == RemoveControl(input_str)

\* validation.sanitize_input
sanitize_input(input_str) ==
  IF input_str = <<>> THEN <<>> ELSE Strip(RemoveControl(input_str))

\* validation.validate_data_input: required, non-blank, at most 10000
\* characters, none of the dangerous patterns.
DATA_MAX_LEN == 10000

\* Two elements of a text stand for more than one character: a run of 10000
\* letters, and the tag that the first of the dangerous patterns matches.
LongRun == "a x 10000"

ScriptTag == "<script>"

Width(ch) == IF ch = LongRun THEN DATA_MAX_LEN ELSE IF ch = ScriptTag THEN 8 ELSE 1

RECURSIVE TextLen(_)
TextLen(d) == IF d = <<>> THEN 0 ELSE Width(Head(d)) + TextLen(Tail(d))

\* re.search(pattern, data, re.IGNORECASE) for one of dangerous_patterns
Dangerous(d) == \E i \in DOMAIN d : d[i] = ScriptTag

validate_data_input_any(d) == TRUE

validate_data_input(d) ==
  /\ d # <<>>
  /\ Strip(d) # <<>>
  /\ TextLen(Strip(d)) <= DATA_MAX_LEN
  /\ ~Dangerous(Strip(d))

\* ------------------------------------------------------- /api/data routes
Response(route, username, status, body) ==
  [route |-> route, username |-> username, status |-> status, data |-> body]

\* save_user_data_route(username), after its validate_csrf: sanitize, validate,
\* encrypt, save.
save_user_data_route(username, form_data) ==
  /\ app.pc = "serving"
  /\ username \in Usernames
  /\ LET d == sanitize_input(form_data)
         encrypted_data == encrypt_data(d, app.fernet_key)
     IN \/ /\ ~validate_data_input(d)
           /\ resp' = Response("POST", username, 400, <<>>)
           /\ UNCHANGED <<data, last_saved>>
        \/ /\ validate_data_input(d)
           /\ ~save_user_data_raises(data, username)
           /\ data' = save_user_data(data, username, encrypted_data)
           /\ last_saved' = [last_saved EXCEPT ![username] =
                               [blob |-> <<encrypted_data>>, text |-> <<d>>,
                                overwrote |-> @.overwrote \/ @.blob # <<>>]]
           /\ resp' = Response("POST", username, 200, <<>>)
        \/ /\ validate_data_input(d)
           /\ "db" \in faults \/ save_user_data_raises(data, username)
           /\ resp' = Response("POST", username, 500, <<>>)
           /\ UNCHANGED <<data, last_saved>>
  /\ UNCHANGED <<users, keyVars, concVars, rateVars>>

\* POST /api/data of a session of `username`, with a valid token.
SaveUserDataRoute(username, form_data) ==
  /\ save_user_data_route(username, form_data)
  /\ UNCHANGED webVars

\* get_user_data_route(username)
get_user_data_route(username) ==
  /\ app.pc = "serving"
  /\ username \in Usernames
  /\ LET encrypted_data == get_user_data(data, username)
     IN \/ /\ encrypted_data = <<>>
           /\ resp' = Response("GET", username, 200, <<>>)
        \/ /\ encrypted_data # <<>>
           /\ ~decrypt_data(encrypted_data[1], app.fernet_key).raised
           /\ resp' = Response("GET", username, 200,
                               <<decrypt_data(encrypted_data[1], app.fernet_key).text>>)
        \/ /\ encrypted_data # <<>>
           /\ decrypt_data(encrypted_data[1], app.fernet_key).raised
           /\ resp' = Response("GET", username, 500, <<>>)
        \/ /\ "db" \in faults
           /\ resp' = Response("GET", username, 500, <<>>)
  /\ UNCHANGED <<users, data, last_saved, keyVars, concVars, rateVars>>

\* GET /api/data of a session of `username`.
GetUserDataRoute(username) ==
  /\ get_user_data_route(username)
  /\ UNCHANGED webVars

\* POST /register reaching create_user(username, generate_phash(password)).
CreateUser(username, password_hash) ==
  /\ app.pc = "serving"
  /\ ~create_user_raises(username)
  /\ users' = create_user(username, password_hash)
  /\ UNCHANGED <<data, resp, last_saved, keyVars, concVars, rateVars, webVars>>

\* ------------------------------------------- save_user_data, step by step
\* The calls of save_user_data that worker threads are in, each on its own
\* connection.  pc "select": the connection is open; "write": the SELECT was
\* answered and found says whether fetchone() returned a row; "commit": the
\* UPDATE or INSERT was executed inside the connection's transaction, which
\* holds the database's write lock.
InSave(t) == threads[t].pc \in {"select", "write", "commit"}

\* with get_db_connection(db_path) as conn: cursor = conn.cursor()
SaveBegin(t, username, plain) ==
  /\ app.pc = "serving"
  /\ threads[t].pc = "idle"
  /\ username \in Usernames
  /\ Len(data) + Cardinality({o \in Threads : InSave(o)}) < MaxRows
  /\ threads' = [threads EXCEPT ![t] =
                   [pc |-> "select", username |-> username, plain |-> plain,
                    encrypted_data |-> encrypt_data(plain, app.fernet_key),
                    found |-> FALSE]]
  /\ UNCHANGED <<answered, keyVars, dbVars, rateVars, webVars>>

\* SELECT id FROM data WHERE username = ?; cursor.fetchone()
SaveSelect(t) ==
  /\ threads[t].pc = "select"
  /\ threads' = [threads EXCEPT ![t].pc = "write",
                                ![t].found = RowsOf(data, threads[t].username) # {}]
  /\ UNCHANGED <<answered, keyVars, dbVars, rateVars, webVars>>

\* UPDATE data SET data = ? WHERE username = ?, or INSERT INTO data: the
\* statement opens the connection's transaction and waits while another
\* connection holds the write lock.
SaveWrite(t) ==
  /\ threads[t].pc = "write"
  /\ \A o \in Threads \ {t} : threads[o].pc # "commit"
  /\ threads' = [threads EXCEPT ![t].pc = "commit"]
  /\ UNCHANGED <<answered, keyVars, dbVars, rateVars, webVars>>

\* The table after the statement of the call: UPDATE changes every row of the
\* username, INSERT adds a row.
SaveStatement(table, call) ==
  IF call.found
  THEN [i \in DOMAIN table |->
          IF table[i].username = call.username
          THEN [table[i] EXCEPT !.data = call.encrypted_data] ELSE table[i]]
  ELSE Append(table, [username |-> call.username, data |-> call.encrypted_data])

\* conn.commit(); return True
SaveCommit(t) ==
  /\ threads[t].pc = "commit"
  /\ data' = SaveStatement(data, threads[t])
  /\ last_saved' = [last_saved EXCEPT ![threads[t].username] =
                      [blob |-> <<threads[t].encrypted_data>>,
                       text |-> <<threads[t].plain>>,
                       overwrote |-> @.overwrote \/ @.blob # <<>>]]
  /\ threads' = [threads EXCEPT ![t] = IdleThread]
  /\ UNCHANGED <<answered, users, resp, keyVars, rateVars, webVars>>

\* ------------------------------------------------------------ form inputs
\* The usernames a client types, and their characters.
LongName == "aaa...a (51)"

FormNames == {"alice", "bob", " bob", "", "al", "_al", "a l", LongName}

NameText(n) ==
  CASE n = "alice" -> <<"a", "l", "i", "c", "e">>
    [] n = "bob" -> <<"b", "o", "b">>
    [] n = " bob" -> <<" ", "b", "o", "b">>
    [] n = "" -> <<>>
    [] n = "al" -> <<"a", "l">>
    [] n = "_al" -> <<"_", "a", "l">>
    [] n = "a l" -> <<"a", " ", "l">>
    [] n = LongName -> [i \in 1..51 |-> "a"]

NameOf(text) == CHOOSE n \in FormNames : NameText(n) = text

\* \w in the place of [a-zA-Z0-9_]: letters of any script
WordCharsUnicode == {"a", "b", "c", "e", "i", "l", "o", "Z", "7", "_", "U+00E9"}

\* [a-zA-Z0-9_] among the characters of the names
WordChars == {"a", "b", "c", "e", "i", "l", "o", "Z", "7", "_"}

\* validation.validate_username: the message of the first failing check, or
\* "ok".
validate_username(username) ==
  IF username = <<>> THEN "El nombre de usuario es requerido"
  ELSE IF Strip(username) = <<>> THEN "El nombre de usuario es requerido"
  ELSE IF Len(Strip(username)) < 3
       THEN "El nombre de usuario debe tener al menos 3 caracteres"
  ELSE IF Len(Strip(username)) > 50
       THEN "El nombre de usuario no puede tener mas de 50 caracteres"
  ELSE IF \E i \in DOMAIN Strip(username) : Strip(username)[i] \notin WordChars
       THEN "El nombre de usuario solo puede contener letras, numeros y guiones bajos"
  ELSE IF Strip(username)[1] = "_"
       THEN "El nombre de usuario debe comenzar con una letra o numero"
  ELSE "ok"

\* The passwords a client types: a password is given by its length and the
\* character classes found in it.
Password(id, len, lower, upper, digit) ==
  [id |-> id, len |-> len, lower |-> lower, upper |-> upper, digit |-> digit]

Passwords ==
  { Password("", 0, FALSE, FALSE, FALSE),
    Password("Passw0rd1", 9, TRUE, TRUE, TRUE),
    Password("Passw0rd2", 9, TRUE, TRUE, TRUE),
    Password("password1", 9, TRUE, FALSE, TRUE),
    Password("Pw0", 3, TRUE, TRUE, TRUE),
    Password("Passw0rd...(129)", 129, TRUE, TRUE, TRUE) }

validate_password_lenient(password) ==
  IF password.len = 0 THEN "La contrasena es requerida"
  ELSE IF password.len < 8 THEN "La contrasena debe tener al menos 8 caracteres"
  ELSE "ok"

\* validation.validate_password
validate_password(password) ==
  IF password.len = 0 THEN "La contrasena es requerida"
  ELSE IF password.len < 8 THEN "La contrasena debe tener al menos 8 caracteres"
  ELSE IF password.len > 128
       THEN "La contrasena no puede tener mas de 128 caracteres"
  ELSE IF ~(password.lower /\ password.upper /\ password.digit)
       THEN "La contrasena debe contener al menos: ..."
  ELSE "ok"

\* werkzeug generate_password_hash / check_password_hash
generate_phash(password) == [method |-> "pbkdf2", password |-> password.id]

\* A check that accepts every password.
check_phash_any(pwhash, password) == TRUE

check_phash(pwhash, password) == pwhash.password = password.id

\* database.get_user_password: <<>> is None.
get_user_password(username) ==
  IF username \in Usernames
  THEN <<(CHOOSE r \in users : r.username = username).password>>
  ELSE <<>>

\* ------------------------------------------------------------------ CSRF
\* Where the request carries its CSRF token: a valid one in the form field
\* csrf_token, a valid one only in the X-CSRFToken header, none, or an invalid
\* one.
CsrfKinds == {"form", "header", "missing", "invalid"}

\* csrf = CSRFProtect(app): before every POST view flask_wtf validates the
\* token of the form field or of the header, and answers 400 without calling
\* the view when it is missing or invalid.
csrf_protect_off(method, csrf) == TRUE

csrf_protect(method, csrf) == method # "POST" \/ csrf \in {"form", "header"}

\* validate_csrf(request.form.get('csrf_token')) in a view
validate_csrf_any(csrf) == TRUE

validate_csrf(csrf) == csrf = "form"

MsgCsrf == "Token de seguridad invalido. Recarga la pagina."

\* The response of flask_wtf's CSRFError: 400, not one of the views' bodies.
CsrfRejected(route, method, csrf, form) ==
  Http(route, method, csrf, form, 400, "none", "CSRFError", {})

\* ---------------------------------------------------------------- /login
\* What a view answers and does: status, field and error of the response, the
\* effect on session, tables and login_attempts, and what was done on the way.
Out(status, field, error, effect, did) ==
  [status |-> status, field |-> field, error |-> error, effect |-> effect,
   did |-> did]

MsgInternal == "Error interno del servidor"

\* return jsonify({'error': 'Usuario o contrasena incorrectos', 'field':
\* 'username'}), 401: for a user that does not exist, and for a wrong password.
NoSuchUserResponseTelling ==
  Out(401, "username", "El usuario no existe", "record", {"lookup"})

NoSuchUserResponse ==
  Out(401, "username", "Usuario o contrasena incorrectos", "record", {"lookup"})

WrongPasswordResponse ==
  Out(401, "username", "Usuario o contrasena incorrectos", "record",
      {"lookup", "verify"})

\* login(), the POST branch after the rate limit check.  username is the
\* sanitized form field.
login_checks(csrf, username, password, db_raises) ==
  IF ~validate_csrf(csrf) THEN Out(400, "username", MsgCsrf, "none", {})
  ELSE IF validate_username(username) # "ok"
  THEN Out(400, "username", validate_username(username), "record", {})
  ELSE IF password.len = 0
  THEN Out(400, "password", "La contrasena es requerida", "record", {})
  ELSE IF password.len > 128
  THEN Out(400, "password", "Contrasena demasiado larga", "record", {})
  ELSE IF db_raises THEN Out(500, "username", MsgInternal, "none", {"lookup"})
  ELSE IF get_user_password(NameOf(username)) = <<>> THEN NoSuchUserResponse
  ELSE IF check_phash(get_user_password(NameOf(username))[1], password)
  THEN Out(200, "none", "none", "login", {"lookup", "verify"})
  ELSE WrongPasswordResponse

login_view_unlimited(ip, csrf, username, password, db_raises) ==
  login_checks(csrf, username, password, db_raises)

\* login() with a 429 that counts as an attempt.
login_view_recording(ip, csrf, username, password, db_raises) ==
  IF is_rate_limited(login_attempts, ip, now)
  THEN Out(429, "username", "Demasiados intentos de inicio de sesion", "record", {})
  ELSE login_checks(csrf, username, password, db_raises)

\* login(), the POST branch: the rate limit check comes first.
login_view(ip, csrf, username, password, db_raises) ==
  IF is_rate_limited(login_attempts, ip, now)
  THEN Out(429, "username", "Demasiados intentos de inicio de sesion", "none", {})
  ELSE login_checks(csrf, username, password, db_raises)

\* Whether sqlite3 raises in this request.
DbRaises == {FALSE} \cup {r \in {TRUE} : "db" \in faults}

CanRecord == TotalRecorded < MaxRecorded

\* login(): POST /login from address ip.
login(ip, csrf, form_username, password) ==
  /\ app.pc = "serving"
  /\ LET form == [ip |-> ip, username |-> form_username, password |-> password]
         username == sanitize_input(NameText(form_username))
     IN IF ~csrf_protect("POST", csrf)
        THEN /\ http' = CsrfRejected("/login", "POST", csrf, form)
             /\ UNCHANGED <<session, login_attempts, recorded>>
        ELSE \E db_raises \in DbRaises :
               LET out == login_view(ip, csrf, username, password, db_raises)
                   pruned == Pruned(login_attempts, ip, now)
               IN /\ out.effect = "record" => CanRecord
                  /\ http' = Http("/login", "POST", csrf, form, out.status,
                                  out.field, out.error,
                                  out.did \cup (IF out.effect = "record"
                                                THEN {"record"} ELSE {}))
                  /\ login_attempts' =
                       CASE out.effect = "record" ->
                              record_login_attempt(pruned, ip, now)
                         [] out.effect = "login" -> clear_login_attempts(pruned, ip)
                         [] OTHER -> pruned
                  /\ recorded' =
                       CASE out.effect = "record" ->
                              [recorded EXCEPT ![ip] = Append(@, now)]
                         [] out.effect = "login" -> [recorded EXCEPT ![ip] = <<>>]
                         [] OTHER -> recorded
                  /\ session' = IF out.effect = "login"
                                THEN <<NameOf(username)>> ELSE session
  /\ UNCHANGED <<now, limiter, posted, keyVars, dbVars>>

\* POST /login from address ip.
Login(ip, csrf, form_username, password) ==
  /\ login(ip, csrf, form_username, password)
  /\ UNCHANGED concVars

\* POST /login from address ip; the history keeps the answers that a
\* credential check led to (200 and 401).
LoginAnswered(ip, csrf, form_username, password) ==
  /\ login(ip, csrf, form_username, password)
  /\ IF http'.status \in {200, 401}
     THEN /\ Len(answered) < MaxAnswered
          /\ answered' = Append(answered, [ip |-> ip, time |-> now,
                                           status |-> http'.status])
     ELSE UNCHANGED answered
  /\ UNCHANGED threads

\* ------------------------------------------------------------- /register
\* register(), the POST branch.  username is the sanitized form field.
register_view(csrf, username, password, confirm_password, terms, db_raises) ==
  IF ~validate_csrf(csrf) THEN Out(400, "username", MsgCsrf, "none", {})
  ELSE IF validate_username(username) # "ok"
  THEN Out(400, "username", validate_username(username), "none", {})
  ELSE IF validate_password(password) # "ok"
  THEN Out(400, "password", validate_password(password), "none", {})
  ELSE IF password.id # confirm_password.id
  THEN Out(400, "confirm-password", "Las contrasenas no coinciden", "none", {})
  ELSE IF ~terms
  THEN Out(400, "terms", "Debes aceptar los terminos de servicio", "none", {})
  ELSE IF db_raises THEN Out(500, "username", MsgInternal, "none", {})
  ELSE IF create_user_raises(NameOf(username))
  THEN Out(409, "username", "El nombre de usuario ya esta en uso", "none", {})
  ELSE Out(201, "none", "none", "create", {"create"})

\* POST /register
Register(csrf, form_username, password, confirm_password, terms) ==
  /\ app.pc = "serving"
  /\ LET form == [username |-> form_username, password |-> password,
                  confirm_password |-> confirm_password, terms |-> terms]
         username == sanitize_input(NameText(form_username))
     IN IF ~csrf_protect("POST", csrf)
        THEN /\ http' = CsrfRejected("/register", "POST", csrf, form)
             /\ UNCHANGED users
        ELSE \E db_raises \in DbRaises :
               LET out == register_view(csrf, username, password,
                                        confirm_password, terms, db_raises)
               IN /\ http' = Http("/register", "POST", csrf, form, out.status,
                                  out.field, out.error, out.did)
                  /\ users' = IF out.effect = "create"
                              THEN create_user(NameOf(username),
                                               generate_phash(password))
                              ELSE users
  /\ UNCHANGED <<data, resp, last_saved, session, posted, keyVars, concVars, rateVars>>

\* --------------------------------------------------------------- /logout
\* logout(): a form POST (for which the view itself validates no token) or a
\* GET; session.clear() and a redirect to index.
session_clear_keep(s) == s

\* session.clear()
session_clear(s) == <<>>

Logout(method, csrf) ==
  /\ app.pc = "serving"
  /\ IF ~csrf_protect(method, csrf)
     THEN /\ http' = CsrfRejected("/logout", method, csrf, NoForm)
          /\ UNCHANGED session
     ELSE /\ http' = Http("/logout", method, csrf, NoForm, 302, "none",
                          "Location: /", {"clear session"})
          /\ session' = session_clear(session)
  /\ UNCHANGED <<posted, keyVars, concVars, dbVars, rateVars>>

\* ----------------------------------------------------------------- /data
\* data_page(): GET /data
DataPage ==
  /\ app.pc = "serving"
  /\ http' = IF session = <<>>
             THEN Http("/data", "GET", "none", NoForm, 302, "none",
                       "Location: /login", {})
             ELSE Http("/data", "GET", "none", NoForm, 200, "none", "none", {})
  /\ UNCHANGED <<session, posted, keyVars, concVars, dbVars, rateVars>>

\* ------------------------------------------------------------- /api/data
\* What the route did, from its response.
DidGet(r) == IF r.data # <<>> \/ get_user_data(data, r.username) # <<>>
             THEN {"read", "decrypt"} ELSE {"read"}

\* session.get('username'): <<>> is None.
session_get_username_alice(s) == IF s = <<>> THEN <<"alice">> ELSE s

session_get_username(s) == s

\* handle_data(): GET or POST /api/data
HandleData(method, csrf, form_data) ==
  LET form == [data |-> form_data]
      username == session_get_username(session)
  IN
  \/ /\ app.pc = "serving"
     /\ ~csrf_protect(method, csrf)
     /\ http' = CsrfRejected("/api/data", method, csrf, form)
     /\ UNCHANGED <<session, posted, keyVars, concVars, dbVars, rateVars>>
  \/ /\ app.pc = "serving"
     /\ csrf_protect(method, csrf)
     /\ username = <<>>
     /\ http' = Http("/api/data", method, csrf, form, 401, "none",
                     "Usuario no autenticado", {})
     /\ UNCHANGED <<session, posted, keyVars, concVars, dbVars, rateVars>>
  \/ /\ csrf_protect(method, csrf)
     /\ username # <<>>
     /\ method = "GET"
     /\ get_user_data_route(username[1])
     /\ http' = Http("/api/data", method, csrf, form, resp'.status, "none",
                     "none", DidGet(resp'))
     /\ UNCHANGED <<session, posted>>
  \/ /\ app.pc = "serving"
     /\ csrf_protect(method, csrf)
     /\ username # <<>>
     /\ method = "POST"
     /\ ~validate_csrf(csrf)
     /\ http' = Http("/api/data", method, csrf, form, 400, "none", MsgCsrf, {})
     /\ UNCHANGED <<session, posted, keyVars, concVars, dbVars, rateVars>>
  \/ /\ csrf_protect(method, csrf)
     /\ username # <<>>
     /\ method = "POST"
     /\ validate_csrf(csrf)
     /\ save_user_data_route(username[1], form_data)
     /\ http' = Http("/api/data", method, csrf, form, resp'.status, "none",
                     "none", IF resp'.status = 200 THEN {"write"} ELSE {})
     /\ posted' = IF resp'.status = 200
                  THEN [posted EXCEPT ![username[1]] = <<form_data>>] ELSE posted
     /\ UNCHANGED session

\* ------------------------------------------------------------ specification
\* A fresh installation: no key file, empty tables, nothing running.
Init ==
  /\ os_name \in {"posix", "nt"}
  /\ faults = AllFaults
  /\ files = [p \in Paths |-> NoFile]
  /\ rk = [c \in Callers |-> IdleCall]
  /\ last_ret = [p \in Paths |-> <<>>]
  /\ app = Down
  /\ users = {}
  /\ data = <<>>
  /\ resp = NoResp
  /\ last_saved = [u \in Users |-> NeverSaved]
  /\ login_attempts = NoAttempts
  /\ now = 0
  /\ recorded = [ip \in IPs |-> <<>>]
  /\ limiter = [op |-> "none", ip |-> "none", result |-> FALSE]
  /\ session = <<>>
  /\ http = NoRequest
  /\ posted = [u \in Users |-> <<>>]
  /\ threads = NoThreads
  /\ answered = <<>>

\* The key lifecycle: app.py starting, obtaining its key, and ending.
Next ==
  \/ \E c \in Callers : RkMkdir(c)
  \/ \E c \in Callers : RkExists(c)
  \/ \E c \in Callers : RkRead(c)
  \/ \E c \in Callers : RkUnlink(c)
  \/ \E c \in Callers : RkOpen(c)
  \/ \E c \in Callers : RkWrite(c)
  \/ \E c \in Callers : RkChmod(c)
  \/ \E c \in Callers : RkVerify(c)
  \/ AppStart
  \/ AppKeyPrimary
  \/ AppKeyAlt
  \/ AppExit

Spec == Init /\ [][Next]_vars

\* The key lifecycle together with the requests the running application serves,
\* under the failures of DataFaults.
DataNext ==
  \/ \E c \in Callers : RkMkdir(c)
  \/ \E c \in Callers : RkExists(c)
  \/ \E c \in Callers : RkRead(c)
  \/ \E c \in Callers : RkUnlink(c)
  \/ \E c \in Callers : RkOpen(c)
  \/ \E c \in Callers : RkWrite(c)
  \/ \E c \in Callers : RkChmod(c)
  \/ \E c \in Callers : RkVerify(c)
  \/ AppStart
  \/ AppKeyPrimary
  \/ AppExit
  \/ \E u \in Users, h \in Hashes : CreateUser(u, h)
  \/ \E u \in Users, d \in Texts : SaveUserDataRoute(u, d)
  \/ \E u \in Users : GetUserDataRoute(u)

\* The host is POSIX, and of the failures the environment produces a failing
\* read of the key file and sqlite3 errors.  No call of read_secret_key raises
\* under these, so app.py never reaches its alternative path (AppKeyAlt).
DataFaults == {"read", "db"}

InitData ==
  /\ os_name = "posix"
  /\ faults = DataFaults
  /\ files = [p \in Paths |-> NoFile]
  /\ rk = [c \in Callers |-> IdleCall]
  /\ last_ret = [p \in Paths |-> <<>>]
  /\ app = Down
  /\ users = {}
  /\ data = <<>>
  /\ resp = NoResp
  /\ last_saved = [u \in Users |-> NeverSaved]
  /\ login_attempts = NoAttempts
  /\ now = 0
  /\ recorded = [ip \in IPs |-> <<>>]
  /\ limiter = [op |-> "none", ip |-> "none", result |-> FALSE]
  /\ session = <<>>
  /\ http = NoRequest
  /\ posted = [u \in Users |-> <<>>]
  /\ threads = NoThreads
  /\ answered = <<>>

SpecData == InitData /\ [][DataNext]_vars

\* The rate limiter of a running application: app.py has started without a
\* failure and serves; clients' login attempts are checked, recorded and
\* cleared while the clock moves on.
InitRate ==
  /\ os_name = "posix"
  /\ faults = {}
  /\ files = [p \in Paths |->
               [exists |-> TRUE, mode |-> OwnerOnly,
                content |-> IF p = key_path THEN <<1>> ELSE <<-1>>]]
  /\ rk = [c \in Callers |-> IdleCall]
  /\ last_ret = [p \in Paths |-> IF p = key_path THEN <<1>> ELSE <<>>]
  /\ app = [pc |-> "serving", fernet_key |-> <<1>>, error |-> "none"]
  /\ users = {}
  /\ data = <<>>
  /\ resp = NoResp
  /\ last_saved = [u \in Users |-> NeverSaved]
  /\ login_attempts = NoAttempts
  /\ now = 0
  /\ recorded = [ip \in IPs |-> <<>>]
  /\ limiter = [op |-> "none", ip |-> "none", result |-> FALSE]
  /\ session = <<>>
  /\ http = NoRequest
  /\ posted = [u \in Users |-> <<>>]
  /\ threads = NoThreads
  /\ answered = <<>>

RateNext ==
  \/ \E ip \in IPs : IsRateLimited(ip)
  \/ \E ip \in IPs : RecordLoginAttempt(ip)
  \/ \E ip \in IPs : ClearLoginAttempts(ip)
  \/ Tick

SpecRate == InitRate /\ [][RateNext]_vars

\* encrypt_data and decrypt_data called directly, with save_user_data and
\* get_user_data in between, for every text over AllChars and every key.
CryptoTexts == UNION {[1..n -> AllChars] : n \in 0..MaxTextLen}

CryptoUsers == {"alice"}

InitCrypto ==
  /\ os_name = "posix"
  /\ faults = {}
  /\ \E k \in 1..MaxKeys :
       /\ files = [p \in Paths |->
                    [exists |-> TRUE, mode |-> OwnerOnly,
                     content |-> IF p = key_path THEN <<k>> ELSE <<-1>>]]
       /\ last_ret = [p \in Paths |-> IF p = key_path THEN <<k>> ELSE <<>>]
       /\ app = [pc |-> "serving", fernet_key |-> <<k>>, error |-> "none"]
  /\ rk = [c \in Callers |-> IdleCall]
  /\ users = {[username |-> u, password |-> h] : u \in CryptoUsers, h \in Hashes}
  /\ data = <<>>
  /\ resp = NoResp
  /\ last_saved = [u \in Users |-> NeverSaved]
  /\ login_attempts = NoAttempts
  /\ now = 0
  /\ recorded = [ip \in IPs |-> <<>>]
  /\ limiter = [op |-> "none", ip |-> "none", result |-> FALSE]
  /\ session = <<>>
  /\ http = NoRequest
  /\ posted = [u \in Users |-> <<>>]
  /\ threads = NoThreads
  /\ answered = <<>>

\* save_user_data(username, encrypt_data(plain_data, fernet_key))
EncryptAndSave(username, plain_data) ==
  /\ ~save_user_data_raises(data, username)
  /\ data' = save_user_data(data, username, encrypt_data(plain_data, app.fernet_key))
  /\ posted' = [posted EXCEPT ![username] = <<plain_data>>]
  /\ resp' = Response("save_user_data", username, 0, <<>>)
  /\ UNCHANGED <<users, last_saved, session, http, keyVars, concVars, rateVars>>

\* decrypt_data(get_user_data(username), fernet_key)
LoadAndDecrypt(username) ==
  /\ get_user_data(data, username) # <<>>
  /\ LET plain == decrypt_data(get_user_data(data, username)[1], app.fernet_key)
     IN resp' = Response("decrypt_data", username,
                         IF plain.raised THEN 500 ELSE 200, <<plain.text>>)
  /\ UNCHANGED <<users, data, last_saved, webVars, keyVars, concVars, rateVars>>

CryptoNext ==
  \/ \E u \in CryptoUsers, x \in CryptoTexts : EncryptAndSave(u, x)
  \/ \E u \in CryptoUsers : LoadAndDecrypt(u)

SpecCrypto == InitCrypto /\ [][CryptoNext]_vars

\* The web application of a running process: one client with its session
\* cookie sends requests to /login, /register, /logout, /data and /api/data,
\* with every placement of the CSRF token; sqlite3 can raise.
WebIPs == {"10.0.0.1"}

WebNames == {"alice"}

WebPasswords == {p \in Passwords : p.id \in {"Passw0rd1", "Passw0rd2"}}

WebTexts == {<<>>, <<"a">>, <<" ", "a">>, <<"a", "\f", "a">>}

InitWeb ==
  /\ os_name = "posix"
  /\ faults = {"db"}
  /\ files = [p \in Paths |->
               [exists |-> TRUE, mode |-> OwnerOnly,
                content |-> IF p = key_path THEN <<1>> ELSE <<-1>>]]
  /\ rk = [c \in Callers |-> IdleCall]
  /\ last_ret = [p \in Paths |-> IF p = key_path THEN <<1>> ELSE <<>>]
  /\ app = [pc |-> "serving", fernet_key |-> <<1>>, error |-> "none"]
  /\ users = {}
  /\ data = <<>>
  /\ resp = NoResp
  /\ last_saved = [u \in Users |-> NeverSaved]
  /\ login_attempts = NoAttempts
  /\ now = 0
  /\ recorded = [ip \in IPs |-> <<>>]
  /\ limiter = [op |-> "none", ip |-> "none", result |-> FALSE]
  /\ session = <<>>
  /\ http = NoRequest
  /\ posted = [u \in Users |-> <<>>]
  /\ threads = NoThreads
  /\ answered = <<>>

WebNext ==
  \/ \E ip \in WebIPs, csrf \in CsrfKinds, n \in WebNames, p \in WebPasswords :
       Login(ip, csrf, n, p)
  \/ \E csrf \in CsrfKinds, n \in WebNames :
       Register(csrf, n, Password("Passw0rd1", 9, TRUE, TRUE, TRUE),
                Password("Passw0rd1", 9, TRUE, TRUE, TRUE), TRUE)
  \/ \E csrf \in CsrfKinds : Logout("POST", csrf)
  \/ Logout("GET", "missing")
  \/ DataPage
  \/ \E csrf \in CsrfKinds, d \in WebTexts : HandleData("POST", csrf, d)
  \/ HandleData("GET", "missing", <<>>)

SpecWeb == InitWeb /\ [][WebNext]_vars

\* Logging in: a client sends every kind of login form, to an application
\* where accounts get registered, and its failures add up to the rate limit.
LoginNames == {"alice", "bob", " bob", "al", ""}

LoginPasswords ==
  {p \in Passwords : p.id \in {"", "Passw0rd1", "Passw0rd2", "Passw0rd...(129)"}}

LoginNext ==
  \/ \E ip \in WebIPs, csrf \in CsrfKinds, n \in LoginNames, p \in LoginPasswords :
       Login(ip, csrf, n, p)
  \/ \E n \in {"alice", "bob"} :
       Register("form", n, Password("Passw0rd1", 9, TRUE, TRUE, TRUE),
                Password("Passw0rd1", 9, TRUE, TRUE, TRUE), TRUE)
  \/ Logout("GET", "missing")

SpecLogin == InitWeb /\ [][LoginNext]_vars

\* Registering: every kind of registration form.
RegisterNames == {"alice", " bob", "", "al", "_al", "a l", LongName}

Pw(id) == CHOOSE p \in Passwords : p.id = id

\* The registration forms: every combination of three names, three passwords,
\* two confirmations and the terms; every name in an otherwise good form; every
\* password in an otherwise good form and in one that fails the later checks.
RegisterForms ==
  [username : {"alice", " bob", "al"},
   password : {Pw("Passw0rd1"), Pw("Passw0rd2"), Pw("password1")},
   confirm_password : {Pw("Passw0rd1"), Pw("Passw0rd2")},
   terms : BOOLEAN]
  \cup [username : RegisterNames, password : {Pw("Passw0rd1")},
        confirm_password : {Pw("Passw0rd1")}, terms : {TRUE}]
  \cup {[username |-> "alice", password |-> p, confirm_password |-> p,
         terms |-> TRUE] : p \in Passwords}
  \cup {[username |-> "alice", password |-> p,
         confirm_password |-> Pw("Passw0rd2"), terms |-> FALSE] : p \in Passwords}

RegisterNext ==
  \E csrf \in {"form", "missing"}, f \in RegisterForms :
    Register(csrf, f.username, f.password, f.confirm_password, f.terms)

SpecRegister == InitWeb /\ [][RegisterNext]_vars

\* Posting texts: alice registers, logs in and out, and posts texts that pass
\* and that fail each check of the save route.
PostTexts == {<<>>, <<" ">>, <<"a">>, <<" ", "a", "a">>, <<LongRun, "a">>,
              <<"a", ScriptTag>>}

PostNext ==
  \/ Register("form", "alice", Pw("Passw0rd1"), Pw("Passw0rd1"), TRUE)
  \/ \E ip \in WebIPs : Login(ip, "form", "alice", Pw("Passw0rd1"))
  \/ Logout("GET", "missing")
  \/ \E csrf \in CsrfKinds, d \in PostTexts : HandleData("POST", csrf, d)
  \/ HandleData("GET", "missing", <<>>)

SpecPost == InitWeb /\ [][PostNext]_vars

\* validate_username on its own: called once on a string of letters, digits,
\* underscores, blanks, dashes and accented letters, of a length around each
\* limit.
NameAlphabet == {"a", "Z", "7", "_", " ", "-", "U+00E9"}

RunLengths == {0, 1, 2, 47, 48, 49, 50}

Run(k) == [i \in 1..k |-> "a"]

UsernameInputs ==
  {<<>>} \cup
  { lead \o <<first>> \o Run(k) \o last \o trail :
      lead \in {<<>>, <<" ">>}, first \in NameAlphabet, k \in RunLengths,
      last \in {<<>>} \cup {<<ch>> : ch \in NameAlphabet},
      trail \in {<<>>, <<" ">>} }

InitNames ==
  /\ os_name = "posix"
  /\ faults = {"db"}
  /\ files = [p \in Paths |->
               [exists |-> TRUE, mode |-> OwnerOnly,
                content |-> IF p = key_path THEN <<1>> ELSE <<-1>>]]
  /\ rk = [c \in Callers |-> IdleCall]
  /\ last_ret = [p \in Paths |-> IF p = key_path THEN <<1>> ELSE <<>>]
  /\ app = [pc |-> "serving", fernet_key |-> <<1>>, error |-> "none"]
  /\ users = {}
  /\ data = <<>>
  /\ resp = NoResp
  /\ last_saved = [u \in Users |-> NeverSaved]
  /\ login_attempts = NoAttempts
  /\ now = 0
  /\ recorded = [ip \in IPs |-> <<>>]
  /\ limiter = [op |-> "none", ip |-> "none", result |-> FALSE]
  /\ session = <<>>
  /\ \E username \in UsernameInputs :
       http = Http("validate_username", "call", "none", [username |-> username],
                   0, "none", "none", {})
  /\ posted = [u \in Users |-> <<>>]
  /\ threads = NoThreads
  /\ answered = <<>>

\* is_valid, error_msg = validate_username(username)
ValidateUsername ==
  /\ http.route = "validate_username" /\ http.method = "call"
  /\ http' = [http EXCEPT !.method = "return",
                          !.error = validate_username(http.form.username)]
  /\ UNCHANGED <<session, posted, keyVars, concVars, dbVars, rateVars>>

NamesNext == ValidateUsername

SpecNames == InitNames /\ [][NamesNext]_vars

\* The rate limit at work: one client address sends login requests with the
\* right and with a wrong password while the clock moves on; the answers are
\* kept.
LimitNext ==
  \/ Register("form", "alice", Pw("Passw0rd1"), Pw("Passw0rd1"), TRUE)
  \/ \E ip \in WebIPs, p \in {Pw("Passw0rd1"), Pw("Passw0rd2")} :
       LoginAnswered(ip, "form", "alice", p)
  \/ Tick

SpecLimit == InitRate /\ [][LimitNext]_vars

\* The block of a client: its login requests, with and without a CSRF token,
\* while the clock moves on.
BlockNext ==
  \/ Register("form", "alice", Pw("Passw0rd1"), Pw("Passw0rd1"), TRUE)
  \/ \E ip \in WebIPs, csrf \in {"form", "missing", "invalid"},
        p \in {Pw("Passw0rd1"), Pw("Passw0rd2")} :
       Login(ip, csrf, "alice", p)
  \/ Tick

SpecBlock == InitRate /\ [][BlockNext]_vars

\* Two processes call read_secret_key on the path of the application's key,
\* where no key file exists yet; nothing else fails.
Procs == {"p1", "p2"}

InitRace ==
  /\ os_name \in {"posix", "nt"}
  /\ faults = {}
  /\ files = [p \in Paths |-> NoFile]
  /\ rk = [c \in Procs |-> StartCall(key_path)]
  /\ last_ret = [p \in Paths |-> <<>>]
  /\ app = Down
  /\ users = {}
  /\ data = <<>>
  /\ resp = NoResp
  /\ last_saved = [u \in Users |-> NeverSaved]
  /\ login_attempts = NoAttempts
  /\ now = 0
  /\ recorded = [ip \in IPs |-> <<>>]
  /\ limiter = [op |-> "none", ip |-> "none", result |-> FALSE]
  /\ session = <<>>
  /\ http = NoRequest
  /\ posted = [u \in Users |-> <<>>]
  /\ threads = NoThreads
  /\ answered = <<>>

RaceNext ==
  \/ \E c \in Procs : RkMkdir(c)
  \/ \E c \in Procs : RkExists(c)
  \/ \E c \in Procs : RkRead(c)
  \/ \E c \in Procs : RkUnlink(c)
  \/ \E c \in Procs : RkOpen(c)
  \/ \E c \in Procs : RkWrite(c)
  \/ \E c \in Procs : RkChmod(c)
  \/ \E c \in Procs : RkVerify(c)

SpecRace == InitRace /\ [][RaceNext]_vars

\* Saving at the same time: accounts get created, and two worker threads of
\* the serving application run save_user_data calls, in any interleaving.
SaveTexts == {<<"a">>, <<"a", "a">>}

SaveNext ==
  \/ \E u \in Users, h \in Hashes : CreateUser(u, h)
  \/ \E t \in Threads, u \in Users, d \in SaveTexts : SaveBegin(t, u, d)
  \/ \E t \in Threads : SaveSelect(t)
  \/ \E t \in Threads : SaveWrite(t)
  \/ \E t \in Threads : SaveCommit(t)

SpecSave == InitRate /\ [][SaveNext]_vars

\* Logging in at the same time: two worker threads run failing login
\* requests of one client address, in any interleaving, while the clock moves
\* on.
ThreadsNext ==
  \/ \E t \in Threads, ip \in WebIPs : LimEnter(t, ip)
  \/ \E t \in Threads : LimRead(t)
  \/ \E t \in Threads : LimAssign(t)
  \/ \E t \in Threads : LimReturn(t)
  \/ \E t \in Threads : LimRecord(t)
  \/ Tick

SpecThreads == InitRate /\ [][ThreadsNext]_vars

\* InitRate is a state the application reaches from a fresh installation.
InitRateReached ==
  /\ os_name = "posix"
  /\ \A p \in Paths : files[p] = [exists |-> TRUE, mode |-> OwnerOnly,
                                   content |-> IF p = key_path THEN <<1>> ELSE <<-1>>]
  /\ app = [pc |-> "serving", fernet_key |-> <<1>>, error |-> "none"]
  /\ last_ret = [p \in Paths |-> IF p = key_path THEN <<1>> ELSE <<>>]
  /\ users = {} /\ data = <<>> /\ resp = NoResp

\* ------------------------------------------------------------------ claims
Returned(c) == rk[c].pc = "returned"

KeyFile(c) == files[rk[c].path]

\* C1: in every reachable state in which the application serves, every record
\* of the data table decrypts under the key the process holds.
C1_StoredRecordsDecrypt ==
  app.pc = "serving" =>
    \A i \in DOMAIN data : DecryptOk(data[i].data, app.fernet_key)

\* C2: a call of read_secret_key on a path whose previous call returned a key,
\* the file untouched in between, returns that same key and neither removes
\* nor rewrites the file.
C2_SecondCallSameKey ==
  \A c \in Callers :
    (Returned(c) /\ last_ret[rk[c].path] # <<>>) =>
      /\ rk[c].result = last_ret[rk[c].path]
      /\ ~rk[c].wrote

\* C3: a call of read_secret_key that found the key file zero-length or holding
\* no usable key, and returns, returns a valid key generated during the call
\* (not the key an earlier call returned for the path), has removed or
\* rewritten the file, and leaves the file non-empty and holding that key.
C3_SelfHeal ==
  \A c \in Callers :
    (Returned(c) /\ rk[c].seen \in {"empty", "invalid"}) =>
      /\ FernetAccepts(rk[c].result)
      /\ rk[c].result # last_ret[rk[c].path]
      /\ rk[c].wrote
      /\ KeyFile(c).exists
      /\ Len(KeyFile(c).content) > 0
      /\ KeyFile(c).content = rk[c].result

C3_Witness ==
  \E c \in Callers :
    Returned(c) /\ rk[c].seen = "empty" /\ KeyFile(c).content = rk[c].result

\* C4: on a host with permission bits, read_secret_key never returns a key it
\* read from an existing file that is group- or world-readable.
C4_PermissionsChecked ==
  \A c \in Callers :
    (Returned(c) /\ rk[c].from_file /\ os_name # "nt") =>
      ~GroupOrWorldReadable(KeyFile(c))

\* C5: a call of read_secret_key that found no file at the path restricts the
\* file's mode only after the key is written, and when it returns the file
\* holds exactly the returned key and (not on Windows) is owner-only.
C5_CreatedKeyFile ==
  \A c \in Callers :
    /\ rk[c].pc = "chmod" => KeyFile(c).content = rk[c].new_key
    /\ (Returned(c) /\ rk[c].seen = "absent") =>
         /\ KeyFile(c).exists
         /\ KeyFile(c).content = rk[c].result
         /\ os_name # "nt" => ~GroupOrWorldReadable(KeyFile(c))

\* The call's progress: the attempt, then the statement within the attempt.
Stage(pc) ==
  CASE pc = "mkdir" -> 0 [] pc = "exists" -> 1 [] pc = "read" -> 2
    [] pc = "unlink" -> 3 [] pc = "open" -> 4 [] pc = "write" -> 5
    [] pc = "chmod" -> 6 [] pc = "verify" -> 7 [] OTHER -> 8

Progress(r) == r.attempt * 9 + Stage(r.pc)

InProgress(r) == r.pc \notin {"idle", "returned", "raised"}

\* C6: a call of read_secret_key makes at most max_attempts (3) attempts and
\* raises to its caller only from the last one; while it runs it can always
\* take a step, and every step moves it forward within the attempt or into the
\* next attempt, so it ends (returns or raises) after boundedly many steps.
C6_BoundedRetry ==
  /\ [](\A c \in Callers :
          /\ rk[c].attempt \in 0..(max_attempts - 1)
          /\ rk[c].pc = "raised" => rk[c].attempt = max_attempts - 1
          /\ InProgress(rk[c]) => ENABLED RkStep(c))
  /\ [][\A c \in Callers :
          (InProgress(rk[c]) /\ rk'[c] # rk[c] /\ rk'[c].pc # "idle") =>
            /\ Progress(rk'[c]) > Progress(rk[c])
            /\ rk'[c].pc = "raised" => rk[c].attempt = max_attempts - 1
            /\ rk'[c].attempt > rk[c].attempt => rk'[c].pc = "mkdir"]_vars

C6_Witness ==
  \E c \in Callers : rk[c].pc = "raised" /\ rk[c].attempt = max_attempts - 1

\* C7: app.py whose calls of read_secret_key both raised ends its start with
\* the error "no encryption key" and does not serve; it begins to serve only
\* with the key a call returned, and whenever it serves it holds a valid key.
C7_NoKeyNoService ==
  /\ [](app.pc = "serving" => FernetAccepts(app.fernet_key))
  /\ [][(app.pc = "key_alt" /\ rk["app"].pc = "raised" /\ app' # app) =>
          app'.pc \in {"failed", "down"}]_vars
  /\ [][(app.pc # "serving" /\ app'.pc = "serving") =>
          /\ app.pc \in {"key_primary", "key_alt"}
          /\ rk["app"].pc = "returned"
          /\ app'.fernet_key = rk["app"].result]_vars

C7_Witness == app.pc = "failed" /\ app.error = "no encryption key"

\* C8: for every user, the data table holds no record if nothing was saved for
\* the user, and otherwise exactly one record, and get_user_data returns the
\* blob of the most recent completed save.
C8_Upsert ==
  \A u \in Users :
    IF last_saved[u].blob = <<>>
    THEN RowsOf(data, u) = {}
    ELSE /\ Cardinality(RowsOf(data, u)) = 1
         /\ get_user_data(data, u) = last_saved[u].blob

C8_Witness ==
  \E u \in Users :
    /\ last_saved[u].overwrote
    /\ Cardinality(RowsOf(data, u)) = 1
    /\ get_user_data(data, u) = last_saved[u].blob

\* What a read for the user is to return: the text of the last save, or
\* nothing.
LastSavedText(u) ==
  last_saved[u].text

\* C9: a read for user A that succeeds returns exactly the text last saved for
\* A (nothing if A never saved), and the record stored for A changes only in a
\* successful save of A's own session.
C9_Isolation ==
  /\ []((resp.route = "GET" /\ resp.status = 200) =>
          resp.data = LastSavedText(resp.username))
  /\ [][\A a \in Users :
          get_user_data(data', a) # get_user_data(data, a) =>
            /\ resp'.route = "POST"
            /\ resp'.username = a
            /\ resp'.status = 200]_vars

C9_Witness ==
  /\ resp.route = "GET" /\ resp.status = 200 /\ resp.username = "alice"
  /\ resp.data # <<>>
  /\ resp.data = LastSavedText("alice")
  /\ LastSavedText("bob") # <<>>
  /\ LastSavedText("bob") # LastSavedText("alice")

\* The attempts recorded for the address since its last clear that the claim
\* counts at the time of the call.
NotOlder(ip) ==
  {i \in DOMAIN recorded[ip] : now - recorded[ip][i] <= LOGIN_ATTEMPT_WINDOW}

Younger(ip) ==
  {i \in DOMAIN recorded[ip] : now - recorded[ip][i] < LOGIN_ATTEMPT_WINDOW}

\* C10 as stated: is_rate_limited returns true exactly when at least
\* MAX_LOGIN_ATTEMPTS attempts recorded since the last clear are not older
\* than LOGIN_ATTEMPT_WINDOW.
C10_AsStated ==
  limiter.op = "is_rate_limited" =>
    limiter.result = (Cardinality(NotOlder(limiter.ip)) >= MAX_LOGIN_ATTEMPTS)

\* C10: is_rate_limited returns true exactly when at least MAX_LOGIN_ATTEMPTS
\* attempts recorded since the last clear are younger than
\* LOGIN_ATTEMPT_WINDOW, and after clear_login_attempts the address has no
\* history and is not limited.
C10_SlidingWindow ==
  /\ limiter.op = "is_rate_limited" =>
       limiter.result = (Cardinality(Younger(limiter.ip)) >= MAX_LOGIN_ATTEMPTS)
  /\ limiter.op = "clear_login_attempts" =>
       /\ ~login_attempts[limiter.ip].known
       /\ ~is_rate_limited(login_attempts, limiter.ip, now)

C10_Witness ==
  /\ limiter.op = "is_rate_limited"
  /\ limiter.result
  /\ Len(recorded[limiter.ip]) >= MAX_LOGIN_ATTEMPTS

\* C19: decrypt_data(encrypt_data(x, k), k) is x for every text x and key k,
\* and a text encrypted, stored with save_user_data, read back with
\* get_user_data and decrypted is the text that was given, without an error.
C19_RoundTrip ==
  /\ \A x \in CryptoTexts, k \in 1..MaxKeys :
       decrypt_data(encrypt_data(x, <<k>>), <<k>>) = [raised |-> FALSE, text |-> x]
  /\ resp.route = "decrypt_data" =>
       /\ resp.status = 200
       /\ resp.data = posted[resp.username]

C19_Witness ==
  /\ resp.route = "decrypt_data"
  /\ resp.data = <<(<<"U+20AC", "\f">>)>>
  /\ posted[resp.username] = resp.data
  /\ Len(data[1].data.text) = 4

\* ------------------------------------------------------------------- C11
\* C11 as stated: while a client address is rate limited, every POST /login
\* from it is answered 429.
C11_AsStated ==
  [][(http'.route = "/login" /\ http' # http
      /\ is_rate_limited(login_attempts, http'.form.ip, now))
     => http'.status = 429]_vars

\* C11: while a client address is rate limited, every POST /login from it is
\* answered 429, or 400 when its CSRF token is missing or invalid, without
\* looking up or verifying any credential and without recording an attempt,
\* and the session stays as it was, even when the submitted username and
\* password are correct.
C11_RateLimitedNoLogin ==
  [][(http'.route = "/login"
      /\ is_rate_limited(login_attempts, http'.form.ip, now))
     => /\ http'.status \in {429, 400}
        /\ http'.status = 400 <=> ~csrf_protect("POST", http'.csrf)
        /\ http'.did = {}
        /\ session' = session
        /\ login_attempts'[http'.form.ip].attempts
             = login_attempts[http'.form.ip].attempts]_vars

\* A rate-limited client was answered 429 to the correct password of a
\* registered user, and has no session.
C11_Witness ==
  /\ http.route = "/login" /\ http.status = 429
  /\ is_rate_limited(login_attempts, http.form.ip, now)
  /\ get_user_password(http.form.username) # <<>>
  /\ check_phash(get_user_password(http.form.username)[1], http.form.password)
  /\ session = <<>>

\* ------------------------------------------------------------------- C12
\* The login form of the request being answered, and what the claim asks of it.
C12_Name == sanitize_input(NameText(http'.form.username))

C12_Conditions ==
  /\ ~is_rate_limited(login_attempts, http'.form.ip, now)
  /\ http'.csrf = "form"
  /\ validate_username(C12_Name) = "ok"
  /\ http'.form.password.len \in 1..128
  /\ \E r \in users : /\ r.username = NameOf(C12_Name)
                      /\ r.password = generate_phash(http'.form.password)

\* C12: POST /login answers 200 and puts the submitted (sanitized) username
\* into the session only if the client is not rate limited, the CSRF token and
\* the input validation pass, a credential record exists for the username and
\* the password verifies against its hash; when all of these hold it answers
\* 200, unless the database raised (500); every other outcome (400, 401, 429,
\* 500) leaves the session unchanged.
C12_LoginIff ==
  [][http'.route = "/login" =>
       /\ http'.status \in {200, 400, 401, 429, 500}
       /\ http'.status = 200 => C12_Conditions /\ session' = <<NameOf(C12_Name)>>
       /\ C12_Conditions => http'.status \in {200, 500}
       /\ (C12_Conditions /\ http'.status = 500) => "db" \in faults
       /\ http'.status # 200 => session' = session]_vars

\* A login as " bob" succeeded and the session holds bob.
C12_Witness ==
  /\ http.route = "/login" /\ http.status = 200
  /\ http.form.username = " bob"
  /\ session = <<"bob">>

\* ------------------------------------------------------------------- C13
\* What the client sees of a response.
Answer(h) == [status |-> h.status, field |-> h.field, error |-> h.error]

\* C13: for a well-formed username and a non-empty password of at most 128
\* characters, a failed login is answered 401 with the same error message and
\* field whether the username has no credential record (nothing was verified)
\* or the password is wrong, so two such responses never differ.
C13_SameFailure ==
  [][(http'.route = "/login" /\ http'.status = 401) =>
       /\ validate_username(sanitize_input(NameText(http'.form.username))) = "ok"
       /\ http'.form.password.len \in 1..128
       /\ "verify" \in http'.did
            <=> NameOf(sanitize_input(NameText(http'.form.username))) \in Usernames
       /\ Answer(http') = [status |-> 401, field |-> "username",
                           error |-> "Usuario o contrasena incorrectos"]
       /\ (http.route = "/login" /\ http.status = 401)
            => Answer(http') = Answer(http)]_vars

\* A wrong password for the registered alice was answered 401, and bob, whose
\* logins would be answered the same, is not registered.
C13_Witness ==
  /\ http.route = "/login" /\ http.status = 401
  /\ http.form.username = "alice" /\ "verify" \in http.did
  /\ "bob" \notin Usernames

\* ------------------------------------------------------------------- C14
\* C14 as stated: a request to /api/data whose session holds no username is
\* answered 401.
C14_AsStated ==
  [][(http'.route = "/api/data" /\ http' # http /\ session = <<>>)
     => http'.status = 401]_vars

\* C14: a request to /api/data (GET or POST) whose session holds no username is
\* answered 401, or 400 when it is a POST whose CSRF token is missing or
\* invalid, and neither reads, decrypts nor writes any data record.
C14_NoSessionNoData ==
  [][(http'.route = "/api/data" /\ session = <<>>) =>
       /\ http'.status \in {401, 400}
       /\ http'.status = 400 <=> ~csrf_protect(http'.method, http'.csrf)
       /\ http'.did = {}
       /\ UNCHANGED <<data, resp, last_saved, posted, session>>]_vars

\* Without a session, a POST that carries a valid token and a text was
\* answered 401 while a record of alice is stored.
C14_Witness ==
  /\ http.route = "/api/data" /\ http.method = "POST" /\ http.status = 401
  /\ http.csrf = "form" /\ http.form.data = <<"a", "\f", "a">>
  /\ session = <<>>
  /\ data # <<>>

C16_CsrfRejects ==
  [][(/\ http'.method = "POST"
      /\ http'.route \in {"/login", "/register", "/api/data", "/logout"}
      /\ http'.csrf \in {"missing", "invalid"})
     => /\ http'.status = 400
        /\ http'.did = {}
        /\ UNCHANGED <<session, users, data, last_saved, posted,
                       login_attempts, recorded>>]_vars

\* A POST /logout with an invalid token was answered 400 and alice, with a
\* stored text, is still logged in.
C16_Witness ==
  /\ http.route = "/logout" /\ http.method = "POST" /\ http.csrf = "invalid"
  /\ http.status = 400
  /\ session = <<"alice">>
  /\ data # <<>>

\* ------------------------------------------------------------------- C17
\* The username a registration form asks for.
C17_Name == NameOf(sanitize_input(NameText(http'.form.username)))

\* C17: creating a user whose username already has a credential record fails
\* (create_user raises, POST /register answers 409, or 500 when sqlite3 itself
\* fails) and leaves the record, with its password hash, as it was; no request
\* updates or deletes a credential record; each username has at most one
\* record.
C17_DuplicateUser ==
  [][/\ (/\ http'.route = "/register"
         /\ C17_Name \in Usernames
         /\ http'.status \notin {400})
          => /\ create_user_raises(C17_Name)
             /\ http'.status \in {409, 500}
             /\ http'.status = 500 => "db" \in faults
             /\ users' = users
     /\ users \subseteq users'
     /\ \A r1, r2 \in users' : r1.username = r2.username => r1 = r2]_vars

\* bob is registered with one password, and a valid registration of " bob"
\* with another password was answered 409.
C17_Witness ==
  /\ http.route = "/register" /\ http.status = 409
  /\ http.form.username = " bob"
  /\ http.form.password.id = "Passw0rd2"
  /\ [username |-> "bob", password |-> generate_phash(Password("Passw0rd1", 9, TRUE, TRUE, TRUE))] \in users

\* ------------------------------------------------------------------- C18
\* The checks of a registration form, in the order of the claim: 0 when all
\* pass, else the number of the first that fails.
C18_Strong(p) == p.len \in 8..128 /\ p.lower /\ p.upper /\ p.digit

C18_FirstFailing(h) ==
  IF h.csrf # "form" THEN 1
  ELSE IF validate_username(sanitize_input(NameText(h.form.username))) # "ok" THEN 2
  ELSE IF ~C18_Strong(h.form.password) THEN 3
  ELSE IF h.form.password # h.form.confirm_password THEN 4
  ELSE IF ~h.form.terms THEN 5
  ELSE 0

C18_Field(check) ==
  CASE check = 2 -> "username" [] check = 3 -> "password"
    [] check = 4 -> "confirm-password" [] check = 5 -> "terms"

\* C18: POST /register creates a credential record and answers 201 only when
\* the CSRF check, username validation, password validation, password
\* confirmation and terms acceptance all pass; checked in that order, the first
\* failing check is answered 400, naming its field (username, password,
\* confirm-password, terms), and no credential record is created.
C18_RegisterChecks ==
  [][http'.route = "/register" =>
       LET check == C18_FirstFailing(http')
           name == NameOf(sanitize_input(NameText(http'.form.username)))
       IN /\ http'.status = 201
               => /\ check = 0
                  /\ name \notin Usernames
                  /\ users' = users \cup
                       {[username |-> name,
                         password |-> generate_phash(http'.form.password)]}
          /\ http'.status # 201 => users' = users
          /\ check = 1 => http'.status = 400
          /\ check \in 2..5
               => http'.status = 400 /\ http'.field = C18_Field(check)
          /\ check = 0 => http'.status \in {201, 409, 500}
          /\ (check = 0 /\ name \notin Usernames /\ "db" \notin faults)
               => http'.status = 201]_vars

\* A form with a valid name, a strong password, a confirmation that differs
\* and no acceptance of the terms was answered 400 for confirm-password, after
\* alice was registered.
C18_Witness ==
  /\ http.route = "/register" /\ http.status = 400
  /\ http.field = "confirm-password"
  /\ http.form.username = " bob" /\ ~http.form.terms
  /\ "alice" \in Usernames /\ "bob" \notin Usernames

\* ------------------------------------------------------------------- C20
\* The text the last GET /api/data returned for the session's user, when the
\* last request was such a GET answered 200.
C20_GetAnswered ==
  /\ http.route = "/api/data" /\ http.method = "GET" /\ http.status = 200
  /\ session # <<>>
  /\ posted[session[1]] # <<>>

\* C20 as stated: after a POST /api/data with text d was answered 200, GET
\* /api/data returns d.
C20_AsStated == C20_GetAnswered => resp.data = posted[session[1]]

\* d without its control characters and without the whitespace around it.
C20_Cleaned(d) ==
  LET kept == SelectSeq(d, LAMBDA ch : ~IsControl(ch))
      inner == {i \in DOMAIN kept : ~IsSpace(kept[i])}
      first == CHOOSE i \in inner : \A j \in inner : i <= j
      last == CHOOSE i \in inner : \A j \in inner : j <= i
  IN IF inner = {} THEN <<>> ELSE SubSeq(kept, first, last)

\* C20: after a logged-in user's POST /api/data with text d was answered 200, a
\* GET /api/data on that session that is answered 200 returns d as
\* sanitize_input leaves it (control characters removed, surrounding whitespace
\* stripped), for the d of the latest POST answered 200.
C20_ReadBack ==
  C20_GetAnswered =>
    /\ resp.route = "GET" /\ resp.username = session[1]
    /\ resp.data = <<C20_Cleaned(posted[session[1]][1])>>

\* alice posted a text, then " a", which replaced it, and GET returned "a".
C20_Witness ==
  /\ C20_GetAnswered
  /\ posted["alice"] = << <<" ", "a">> >>
  /\ last_saved["alice"].overwrote
  /\ resp.data = << <<"a">> >>

\* ------------------------------------------------------------------- C25
\* C25: no step removes or rewrites a key file whose content is a valid key.
C25_ValidKeyFileKept ==
  [][\A p \in Paths :
       (files[p].exists /\ FernetAccepts(files[p].content))
         => /\ files'[p].exists
            /\ files'[p].content = files[p].content]_vars

\* ------------------------------------------------------------------- C30
\* C30: the file of the session secret is not a file read_secret_key works on:
\* no call of read_secret_key has it as its path, no step removes or rewrites
\* it once it exists, and it never holds the encryption key of the serving
\* application.
C30_SecretFileApart ==
  [][/\ \A c \in Callers : rk'[c].pc # "idle" => rk'[c].path # SECRET_KEY_FILE
     /\ files[SECRET_KEY_FILE].exists
          => /\ files'[SECRET_KEY_FILE].exists
             /\ files'[SECRET_KEY_FILE].content = files[SECRET_KEY_FILE].content
     /\ app'.pc = "serving"
          => files'[SECRET_KEY_FILE].content # app'.fernet_key]_vars

\* The same state of affairs as a state: the application serves with the key
\* that the session secret file holds.
C30_KeyInSecretFile ==
  /\ app.pc = "serving"
  /\ files[SECRET_KEY_FILE].exists
  /\ files[SECRET_KEY_FILE].content = app.fernet_key

\* ------------------------------------------------------------------- C23
\* What GET /api/data answers for user u from a table, the database working:
\* nothing, the decrypted text, or an error.
C23_GetBody(table, u) ==
  IF get_user_data(table, u) = <<>> THEN [status |-> 200, data |-> <<>>]
  ELSE IF decrypt_data(get_user_data(table, u)[1], app.fernet_key).raised
  THEN [status |-> 500, data |-> <<>>]
  ELSE [status |-> 200,
        data |-> <<decrypt_data(get_user_data(table, u)[1], app.fernet_key).text>>]

\* A form text that the save route has to reject: empty or only whitespace
\* once sanitized, longer than 10000 characters, or with disallowed content.
C23_BadText(d) ==
  \/ C20_Cleaned(d) = <<>>
  \/ TextLen(C20_Cleaned(d)) > 10000
  \/ \E i \in DOMAIN d : d[i] = ScriptTag

\* C23: a POST /api/data that is rejected (400 for an empty, whitespace-only,
\* too long or disallowed text and for a CSRF failure, 401 without a login, 500
\* for an internal error) leaves the data table as it was, so that a following
\* GET answers what it answered before; and a text of these kinds is rejected.
C23_RejectedPostKeepsData ==
  [][/\ (http'.route = "/api/data" /\ http'.method = "POST") =>
          /\ http'.status \in {200, 400, 401, 500}
          /\ (http'.csrf = "form" /\ session # <<>>
                /\ C23_BadText(http'.form.data))
               => http'.status = 400
          /\ http'.status # 200
               => /\ data' = data
                  /\ \A u \in Users :
                       C23_GetBody(data', u) = C23_GetBody(data, u)
     /\ (http'.route = "/api/data" /\ http'.method = "GET"
           /\ http'.status = 200)
          => resp'.data = C23_GetBody(data, session[1]).data]_vars

\* alice has a stored text, and her POST of a text longer than 10000
\* characters was answered 400.
C23_Witness ==
  /\ http.route = "/api/data" /\ http.method = "POST" /\ http.status = 400
  /\ http.csrf = "form" /\ http.form.data = <<LongRun, "a">>
  /\ session = <<"alice">>
  /\ C23_GetBody(data, "alice").data = << <<"a", "a">> >>

\* ------------------------------------------------------------------- C24
\* s without the whitespace around it.
C24_Trimmed(s) ==
  LET inner == {i \in DOMAIN s : s[i] \notin {" ", "\t", "\n", "\r"}}
      first == CHOOSE i \in inner : \A j \in inner : i <= j
      last == CHOOSE i \in inner : \A j \in inner : j <= i
  IN IF inner = {} THEN <<>> ELSE SubSeq(s, first, last)

\* ASCII letters, digits and the underscore, among the characters of the inputs.
C24_Allowed == {"a", "Z", "7", "_"}

C24_Accepted(s) ==
  LET t == C24_Trimmed(s)
  IN /\ Len(t) >= 3 /\ Len(t) <= 50
     /\ \A i \in DOMAIN t : t[i] \in C24_Allowed
     /\ t[1] # "_"

\* The message of the first failing check, in the order of the claim.
C24_Message(s) ==
  LET t == C24_Trimmed(s)
  IN IF t = <<>> THEN "El nombre de usuario es requerido"
     ELSE IF Len(t) < 3
          THEN "El nombre de usuario debe tener al menos 3 caracteres"
     ELSE IF Len(t) > 50
          THEN "El nombre de usuario no puede tener mas de 50 caracteres"
     ELSE IF \E i \in DOMAIN t : t[i] \notin C24_Allowed
          THEN "El nombre de usuario solo puede contener letras, numeros y guiones bajos"
     ELSE "El nombre de usuario debe comenzar con una letra o numero"

\* C24: validate_username accepts exactly the strings that, trimmed of the
\* whitespace around them, are 3 to 50 characters long, consist of ASCII
\* letters, digits and underscores only and do not start with an underscore;
\* a rejected string gets the message of the first failing check in the order
\* required, minimum length, maximum length, character set, leading underscore.
C24_ValidateUsername ==
  (http.route = "validate_username" /\ http.method = "return") =>
    /\ http.error = "ok" <=> C24_Accepted(http.form.username)
    /\ http.error # "ok" => http.error = C24_Message(http.form.username)

\* A string of 51 characters with a dash, in blanks, got the message of the
\* maximum length.
C24_Witness ==
  /\ http.route = "validate_username" /\ http.method = "return"
  /\ http.form.username = <<" ", "a">> \o Run(49) \o <<"-", " ">>
  /\ http.error = "El nombre de usuario no puede tener mas de 50 caracteres"

\* ------------------------------------------------------------------- C26
\* The answers 401 to the address ip among the answers i..j of the history.
C26_Failed(ip, i, j) ==
  {k \in i..j : answered[k].ip = ip /\ answered[k].status = 401}

\* C26: within any interval shorter than LOGIN_ATTEMPT_WINDOW, at most
\* MAX_LOGIN_ATTEMPTS login requests from one client address reach a failed
\* credential check (401), whether or not some of the requests succeed.
C26_BoundedGuesses ==
  \A ip \in WebIPs : \A i \in DOMAIN answered : \A j \in i..Len(answered) :
    answered[j].time - answered[i].time < LOGIN_ATTEMPT_WINDOW
      => Cardinality(C26_Failed(ip, i, j)) <= MAX_LOGIN_ATTEMPTS

\* ------------------------------------------------------------------- C27
\* The attempts of ip that is_rate_limited counts at time t.
C27_Counted(la, ip, t) ==
  SelectSeq(la[ip].attempts, LAMBDA a : t - a < LOGIN_ATTEMPT_WINDOW)

C27_Limited(la, ip, t) == Len(C27_Counted(la, ip, t)) >= MAX_LOGIN_ATTEMPTS

\* C27: a rate-limited client becomes not limited once LOGIN_ATTEMPT_WINDOW
\* has elapsed since its oldest counted attempt, however many login requests
\* it sends while limited: a login request of a limited client is answered
\* 429, or 400 for CSRF, and records no attempt, a request rejected for CSRF
\* never records one, and the attempts counted after any step from a limited
\* state are those counted before it that are still inside the window.
C27_BlockEnds ==
  [][\A ip \in WebIPs :
       LET counted == C27_Counted(login_attempts, ip, now)
           request == http'.route = "/login" /\ now' = now /\ http'.form.ip = ip
       IN /\ (request /\ ~csrf_protect("POST", http'.csrf))
               => /\ http'.status = 400
                  /\ recorded' = recorded
                  /\ C27_Counted(login_attempts', ip, now') = counted
          /\ C27_Limited(login_attempts, ip, now) =>
               /\ request => /\ http'.status \in {429, 400}
                             /\ recorded' = recorded
               /\ C27_Counted(login_attempts', ip, now')
                    = SelectSeq(counted, LAMBDA a : now' - a < LOGIN_ATTEMPT_WINDOW)
               /\ now' - counted[1] >= LOGIN_ATTEMPT_WINDOW
                    => ~is_rate_limited(login_attempts', ip, now')]_vars

\* A client that was answered 429 while limited is not limited any more, the
\* window after its oldest counted attempt being over.
C27_Witness ==
  /\ http.route = "/login" /\ http.status = 429
  /\ Len(recorded[http.form.ip]) = MAX_LOGIN_ATTEMPTS
  /\ now - recorded[http.form.ip][1] >= LOGIN_ATTEMPT_WINDOW
  /\ ~is_rate_limited(login_attempts, http.form.ip, now)

\* ------------------------------------------------------------------- C28
\* C28: a session that contains a username got it from a successful login
\* for that username: the step that puts a username into the session, or
\* changes the one in it, is a POST /login answered 200 whose sanitized form
\* username is that name, a credential record for the name exists and its
\* stored hash is the hash of the submitted password; no other request
\* handler writes a username into the session, and the credential record of
\* the name in the session stays.
C28_SessionFromLogin ==
  [][/\ (session' # session /\ session' # <<>>) =>
          /\ http'.route = "/login" /\ http'.method = "POST"
          /\ http'.status = 200
          /\ Len(session') = 1
          /\ NameText(session'[1]) = C20_Cleaned(NameText(http'.form.username))
          /\ \E r \in users :
               /\ r.username = session'[1]
               /\ r.password.method = "pbkdf2"
               /\ r.password.password = http'.form.password.id
     /\ session' # <<>> => \E r \in users' : r.username = session'[1]]_vars

\* A client is logged in as alice, by the login just answered.
C28_Witness ==
  /\ session = <<"alice">>
  /\ http.route = "/login" /\ http.status = 200
  /\ \E r \in users : r.username = "alice" /\ r.password.password = http.form.password.id

\* ------------------------------------------------------------------- C29
\* C29: when two processes call read_secret_key concurrently on the same path
\* where no key file exists yet, both calls return the same key, and that key
\* is the final content of the file.
C29_SameKey ==
  (\A c \in Procs : rk[c].pc = "returned") =>
    /\ rk["p1"].result = rk["p2"].result
    /\ files[key_path].exists
    /\ files[key_path].content = rk["p1"].result

\* ------------------------------------------------------------------- C21
\* C21: for any interleaving of concurrent save_user_data calls for the same
\* user, each on its own connection, the data table never holds more than
\* one record for that user.
C21_OneRowPerUser ==
  \A u \in Users : Cardinality(RowsOf(data, u)) <= 1

\* ------------------------------------------------------------------- C22
\* How often the time v is in the list s.
C22_Count(s, v) == Cardinality({i \in DOMAIN s : s[i] = v})

C22_Times == {k * TickSeconds : k \in 0..(MaxTime \div TickSeconds)}

\* C22: with two login requests from the same client running concurrently
\* and no lock on login_attempts, a race can under-count attempts, and only
\* that race can: the client's list never holds an attempt that was not
\* recorded, an assignment of is_rate_limited leaves only attempts inside the
\* window of the call, and an attempt inside the window leaves the list only
\* in the assignment of a thread whose pruned list was built before the
\* attempt was appended (the witness is the interleaving in which that
\* happens).
C22_UnderCountByRace ==
  [][\A ip \in WebIPs :
       LET list == login_attempts[ip].attempts
           after == login_attempts'[ip].attempts
           assigns(t) == /\ threads[t].pc = "assign" /\ threads'[t].pc = "return"
                         /\ threads[t].ip = ip
       IN /\ \A v \in C22_Times : C22_Count(after, v) <= C22_Count(recorded'[ip], v)
          /\ \A t \in Threads : assigns(t) =>
               \A i \in DOMAIN after :
                 threads[t].current_time - after[i] < LOGIN_ATTEMPT_WINDOW
          /\ \A v \in C22_Times :
               (C22_Count(after, v) < C22_Count(list, v)
                /\ now' - v < LOGIN_ATTEMPT_WINDOW)
               => \E t \in Threads :
                    /\ assigns(t)
                    /\ C22_Count(threads[t].pruned, v) < C22_Count(list, v)
                    /\ threads[t].current_time - v < LOGIN_ATTEMPT_WINDOW]_vars

\* An attempt recorded inside the window is missing from the client's list,
\* both requests being over.
C22_Witness ==
  \E ip \in WebIPs : \E v \in C22_Times :
    /\ now - v < LOGIN_ATTEMPT_WINDOW
    /\ C22_Count(login_attempts[ip].attempts, v) < C22_Count(recorded[ip], v)
    /\ \A t \in Threads : threads[t].pc = "idle"

====
